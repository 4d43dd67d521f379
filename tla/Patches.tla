------------------------------ MODULE Patches -------------------------------
(***************************************************************************)
(* Scan.h and WriteBytes of mem.h: the places of the game that are         *)
(* written.  ScriptCaving searches for a signature of each place of the    *)
(* code and writes some of the places at once; BooleanFunct writes the     *)
(* others in every frame, as the check boxes say.                          *)
(*                                                                         *)
(* image holds the bytes of the module.  The places whose address is fixed *)
(* are cells of their own; Game stands for a byte only the game knows.     *)
(* A write to an address that was not found ends the game.                 *)
(***************************************************************************)
EXTENDS SigScan, SequencesExt

VARIABLES
    image,      \* the bytes of minia.exe
    address,    \* where each signature was found
    line,       \* how many steps of ScriptCaving are done
    cells,      \* the bytes at the fixed addresses
    crashed     \* a write or a read has faulted

patchVars == <<image, address, line, cells, crashed>>

Game == -2

NOPs(n) == [i \in 1..n |-> \h90]

\* The jump of script(): its displacement depends on where things are loaded.
Jump == <<\hE9, Game, Game, Game, Game, \h90>>

Cooldown == <<\hD8, \h1D, \h1D, \h00, \hFD>>

Signature == [
    lraddr      |-> <<\hD9, \hFA, \hD9, \h5C, \h24, \h38, \hFF>>,
    as1addr     |-> <<\h8B, \hCE, \hD9, \h5C, \h24, \h10, \hE8, \hE1>>,
    drones      |-> <<\h75, \h09, \h8B, \h4E, \h20, \h89>>,
    wallnames   |-> <<\h74, \h23, \h8B, \h4C, \h24, \h34, \h51, \h8D>>,
    lawak1      |-> <<\hD8, \h0D, \h9C, \hFD, \h81, \h00, \h52, \h8B>>,
    lawak2      |-> <<\h33, \hC0, \hC3>> \o [i \in 1..12 |-> \hCC] \o <<\h83, \hEC>>,
    lawak3      |-> <<\hD8, \h05, \hEC, \hEA, \h81, \h00, \hD9, \h5C, \h24, \h44>>,
    fscrolls    |-> <<\h00, \h00, \hA0, \h42, \h35, \hFA, \h0E, \h3C>>,
    fogs        |-> <<\h00, \h00, \h2F, \h44, \h00, \h00, \h1B>>,
    invibypass1 |-> <<\hC6, \h86, \hD1, \h8A, \h00, \h00, \h00, \hC6, \h86,
                      \hD2, \h8A, \h00, \h00, \h00, \h89, \hAE>>,
    nocdrevive  |-> <<\h20, \h41, \hC6, \h86, \hA5, \h01>>,
    nocdrevive2 |-> <<\h80, \h3F, \hC7, \h86, \h98, \h01, \h00, \h00, \h00,
                      \h00, \h20, \h41, \hC6>>,
    tagos1      |-> <<\hD9, \h44, \h24, \h3C, \h8B, \h40, \h08>>,
    tagos2      |-> <<\hD9, \h44, \h24, \h18, \h8B, \h43, \h10>>,
    TAXIHACK    |-> <<\h38, \h58, \h3C, \h75, \h34, \h53>>,
    PYTELEHACK  |-> <<\h8A, \h48, \h3C, \h84, \hC9, \h75, \h4D, \h6A>>,
    SPBPHACK    |-> <<\h8A, \h48, \h3C, \h84, \hC9, \h75, \h4C, \h6A, \h00,
                      \h68, \hC0, \h2A, \h83, \h00, \hE8, \hE1>>,
    lrbuss      |-> <<\h8B, \h4C, \h24, \h14, \h8D, \h74, \h08, \h1E>>,
    petcdbyps   |-> <<\hD8, \h1D, \hEC, \hEA, \h81, \h00, \hDF, \hE0, \hF6,
                      \hC4, \h05, \h7A, \h3A, \h6A, \h00>>,
    bankcdbyps  |-> <<\hD8, \h1D, \hEC, \hEA, \h81, \h00, \hDF, \hE0, \hF6,
                      \hC4, \h01>>,
    bikecdbyps  |-> <<\hD8, \h1D, \hEC, \hEA, \h81, \h00, \hDF, \hE0, \hF6,
                      \hC4, \h05, \h7A, \h2E, \h6A>>,
    slotcdbyps  |-> <<\h01, \h75, \h28, \h56, \h8B, \hCB, \hE8>>]

\* The searches of ScriptCaving in their order, and what it writes at once.
Script == << <<"lraddr", Jump>>, <<"as1addr", Jump>>, <<"drones", <<>>>>,
    <<"wallnames", <<>>>>, <<"lawak1", <<>>>>, <<"lawak2", <<>>>>,
    <<"lawak3", <<>>>>, <<"fscrolls", <<>>>>, <<"fogs", <<>>>>,
    <<"invibypass1", <<>>>>, <<"nocdrevive", <<>>>>, <<"nocdrevive2", <<>>>>,
    <<"tagos1", <<>>>>, <<"tagos2", <<>>>>, <<"TAXIHACK", <<>>>>,
    <<"PYTELEHACK", <<>>>>, <<"SPBPHACK", <<>>>>, <<"lrbuss", <<>>>>,
    <<"petcdbyps", Cooldown>>, <<"bankcdbyps", Cooldown>>,
    <<"bikecdbyps", Cooldown>>, <<"slotcdbyps", <<\h00>> >> >>

\* What BooleanFunct writes for each check box.  SPACEaddress is not written
\* back.
Patch == [
    lrbuss      |-> [box |-> "buslayo", on |-> NOPs(4), off |-> <<\h8B, \h4C, \h24, \h14>>],
    SPACEaddress |-> [box |-> "space", on |-> <<\h32>>, off |-> <<>>],
    TAXIHACK    |-> [box |-> "pyheck", on |-> NOPs(3), off |-> <<\h38, \h58, \h3C>>],
    SPBPHACK    |-> [box |-> "pyheck", on |-> NOPs(3), off |-> <<\h8A, \h48, \h3C>>],
    PYTELEHACK  |-> [box |-> "pyheck", on |-> NOPs(3), off |-> <<\h8A, \h48, \h3C>>],
    tagos1      |-> [box |-> "tagoswall", on |-> NOPs(7),
                     off |-> <<\hD9, \h44, \h24, \h3C, \h8B, \h40, \h08>>],
    tagos2      |-> [box |-> "tagoswall", on |-> NOPs(7),
                     off |-> <<\hD9, \h44, \h24, \h18, \h8B, \h43, \h10>>],
    nocdrevive  |-> [box |-> "bohay", on |-> <<\h80, \hBF>>, off |-> <<\h20, \h41>>],
    nocdrevive2 |-> [box |-> "bohay", on |-> <<\h80, \hBF>>, off |-> <<\h80, \h3F>>],
    vindmodeaddress |-> [box |-> "vend", on |-> <<\hEB>>, off |-> <<\h74>>],
    petaddress  |-> [box |-> "bilispet", on |-> <<\h50, \h46>>, off |-> <<\hC8, \h42>>],
    invibypass1 |-> [box |-> "tago", on |-> NOPs(7),
                     off |-> <<\hC6, \h86, \hD1, \h8A, \h00, \h00, \h00>>],
    inviaddress |-> [box |-> "tago", on |-> <<\h01>>, off |-> <<\h00>>],
    lawak1      |-> [box |-> "lawakpepe", on |-> NOPs(6),
                     off |-> <<\hD8, \h0D, \h9C, \hFD, \h81, \h00>>],
    lawak2      |-> [box |-> "lawakpepe", on |-> NOPs(2), off |-> <<\h33, \hC0>>],
    lawak3      |-> [box |-> "lawakpepe", on |-> NOPs(6),
                     off |-> <<\hD8, \h05, \hEC, \hFA, \h81, \h00>>],
    drones      |-> [box |-> "mata", on |-> <<\hEB>>, off |-> <<\h75>>],
    wallnames   |-> [box |-> "wallneym", on |-> <<\hEB>>, off |-> <<\h74>>],
    fscrolls    |-> [box |-> "fscroll", on |-> <<\h00, \h00, \h96, \h43>>,
                     off |-> <<\h00, \h00, \hA0, \h42>>],
    fogs        |-> [box |-> "fog", on |-> <<\h00, \h24, \h74, \h49>>,
                     off |-> <<\h00, \h00, \h2F, \h44>>],
    autopkAddress |-> [box |-> "autored", on |-> <<\h01>>, off |-> <<\h00>>]]

Scanned == DOMAIN Signature
Places == DOMAIN Patch
Boxes == {Patch[p].box : p \in Places} \cup {"antingongo"}

PilotCells == {"SKILLHEX", "aba8", "abac", "abb0", "abb8", "abbc"}
Fixed == (Places \ Scanned) \cup PilotCells \cup {"skillbypass"}

PatchesInit(images) ==
    /\ image \in images
    /\ address = [s \in Scanned |-> NotFound]
    /\ line = 0
    /\ cells = [c \in Fixed |-> <<Game, Game, Game, Game>>]
    /\ crashed = FALSE

\* WriteBytes on a cell and on the image.
Written(cell, bytes) == bytes \o SubSeq(cell, Len(bytes) + 1, Len(cell))

WrittenAt(bs, a, bytes) ==
    SubSeq(bs, 1, a) \o bytes \o SubSeq(bs, a + Len(bytes) + 1, Len(bs))

\* One step of ScriptCaving: a search, and the write that follows it.
Search ==
    LET s     == Script[line + 1][1]
        bytes == Script[line + 1][2]
        a     == SigScan(image, Signature[s])
    IN  /\ ~crashed
        /\ line < Len(Script)
        /\ line' = line + 1
        /\ address' = [address EXCEPT ![s] = a]
        /\ IF a = Fault \/ (a = NotFound /\ bytes # <<>>)
             THEN crashed' = TRUE /\ UNCHANGED image
             ELSE /\ image' = IF bytes = <<>> THEN image
                                              ELSE WrittenAt(image, a, bytes)
                  /\ UNCHANGED crashed
        /\ UNCHANGED cells

\* Its end: the places of the skills, all alike, are overwritten.
BypassSkills ==
    /\ ~crashed
    /\ line = Len(Script)
    /\ line' = line + 1
    /\ cells' = [cells EXCEPT !["skillbypass"] = Written(@, NOPs(3))]
    /\ UNCHANGED <<image, address, crashed>>

ScriptDone == line > Len(Script) /\ ~crashed

AllFound == \A p \in Places \cap Scanned : address[p] # NotFound

\* What BooleanFunct writes at p, nothing when it leaves p alone.
\* Mutant: as for SPACEaddress, nothing is written back.
PatchBytesOneWay(p, flags) ==
    IF Patch[p].box \in flags THEN Patch[p].on ELSE <<>>

PatchBytes(p, flags) ==
    IF Patch[p].box \in flags THEN Patch[p].on ELSE Patch[p].off

Holds(p) ==
    IF p \in Scanned
      THEN SubSeq(image, address[p] + 1, address[p] + Len(Patch[p].on))
      ELSE SubSeq(cells[p], 1, Len(Patch[p].on))

\* The image and the cells after the writes of BooleanFunct.  Writing what is
\* there changes nothing.
PatchedImage(flags) ==
    FoldSet(LAMBDA p, bs : WrittenAt(bs, address[p], PatchBytes(p, flags)),
            image,
            {p \in Places \cap Scanned : PatchBytes(p, flags) \notin {<<>>, Holds(p)}})

PatchedCells(flags) ==
    [c \in Fixed |-> IF c \in Places THEN Written(cells[c], PatchBytes(c, flags))
                                     ELSE cells[c]]

-----------------------------------------------------------------------------

\* What a place should hold: the bytes of the switched on box, or what the
\* game had there, which for a signature is what the signature begins with.
Intended(p, flags) ==
    IF Patch[p].box \in flags THEN Patch[p].on
    ELSE IF p \in Scanned THEN SubSeq(Signature[p], 1, Len(Patch[p].on))
    ELSE Patch[p].off

\* The two places that are not put back: SPACEaddress is never written again,
\* and the bytes for lawak3 are not those of its signature.
NotRestored == {"SPACEaddress", "lawak3"}

PlacesFollow(flags) ==
    AllFound /\ \A p \in Places \ NotRestored : Holds(p) = Intended(p, flags)

\* ScriptCaving's searches: each ends at the first place of its signature
\* that the loop reaches, in the image as the writes before it have left it.
ScanExact ==
    [][line < Len(Script) /\ line' # line =>
         LET s == Script[line + 1][1]
         IN  IsResult(address'[s], image, Signature[s])]_patchVars

=============================================================================
