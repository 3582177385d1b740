----------------------------- MODULE MCYkpLink -----------------------------
EXTENDS YkpLink

MCCommands == {<<"TOGGLE", TRUE>>, <<"REPORT_REQUEST", FALSE>>, <<"OTHER", FALSE>>}
=============================================================================
