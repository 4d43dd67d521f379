------------------------------ MODULE MCTools -------------------------------
(* Instances of Tools: the images, and the users, that TLC runs through. *)
EXTENDS Tools

\* An image with every signature, a filler byte before each and one at the end.
WholeImage ==
    FlattenSeq([i \in 1..Len(Script) |-> <<\hF4>> \o Signature[Script[i][1]]]) \o <<\hF4>>

\* The image without its i-th signature.
Without(i) ==
    FlattenSeq([j \in 1..Len(Script) |->
        IF j = i THEN <<>> ELSE <<\hF4>> \o Signature[Script[j][1]]]) \o <<\hF4>>

LR == Signature["lraddr"]

\* The module is not loaded, shorter than the signature, just as long, the
\* signature is last, follows its own beginning, or comes twice.
OddImages ==
    {SubSeq(LR, 1, n) : n \in 0..Len(LR)}
      \cup {<<\hF4>> \o LR, LR \o <<\hF4>>, SubSeq(LR, 1, 2) \o LR \o <<\hF4>>,
            LR \o LR \o <<\hF4>>, SubSeq(WholeImage, 1, Len(WholeImage) - 1)}
      \cup {Without(i) : i \in 1..Len(Script)}

Idle == [images |-> {WholeImage}, earlier |-> <<>>, widgets |-> {}, keys |-> {},
         mouse |-> {}, roams |-> FALSE, gameCells |-> {}, busy |-> FALSE]

\* Someone with a mouse who clicks on the widgets in ws.
Clicks(ws) == [Idle EXCEPT !.widgets = ws, !.mouse = {0}]

Told(what, expired) == [about |-> what, expired |-> expired]

MCScenarios ==
    {[Clicks({"MAIN"}) EXCEPT !.images = OddImages],
     [Idle EXCEPT !.mouse = {0, 1, 2}, !.roams = TRUE],
     [Clicks({"MAIN"}) EXCEPT !.earlier = <<Told("a", FALSE), Told("b", FALSE), Told("c", FALSE)>>],
     [Clicks({"MAIN", "INFO"}) EXCEPT !.keys = {"F8"}],
     [Clicks({"MAIN", "vend"}) EXCEPT !.keys = {"F9"}],
     [Clicks({"MAIN", "INFO"}) EXCEPT !.keys = {"LMENU", "Z"}],
     [Clicks({"MAIN"}) EXCEPT !.keys = {"RMENU", "Z"}],
     [Clicks({"MAIN", "pilot", "combo"}) EXCEPT !.gameCells = {"SKILLHEX", "aba8"}],
     [Clicks({"MAIN", "antingongo"}) EXCEPT !.busy = TRUE],
     [Clicks({"MAIN", "bilispet", "tago"}) EXCEPT !.gameCells = {"petaddress", "inviaddress"}]}
    \cup {Clicks({"MAIN", "INFO", b}) : b \in Boxes}

MCSkills == {<<\h38, \h00, \h3F, \h00>>, Off32}

=============================================================================
