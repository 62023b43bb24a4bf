------------------------------- MODULE MCConsole -------------------------------
(* Small instances of OperatorScreen. *)
EXTENDS OperatorScreen, TLC

Both == {"web", "mobile"}
WebOnly == {"web"}
MobileOnly == {"mobile"}

\* Nothing is stored in the browser, or a selection.
NoneOrOne == {{}, {Visible}}
OneStored == {{Visible}}
=============================================================================
