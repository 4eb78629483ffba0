--------------------------- MODULE MCStateMachine ---------------------------
EXTENDS StateMachine

\* A user whose on_entry callbacks re-enter, and one who does it everywhere.
MCReentrant == {{"entry"}, Places}
=============================================================================
