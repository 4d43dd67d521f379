------------------------------- MODULE MCMenu -------------------------------
(***************************************************************************)
(* Menu with maxClicks = 2 as in the code and one click more, which a      *)
(* message box that could not be shown allows.                             *)
(***************************************************************************)
EXTENDS Menu

\* Exercised by every run: the bound on clicks is above the code's limit.
ASSUME MaxClicks < ClickCap

=============================================================================
