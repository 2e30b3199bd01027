--------------------------- MODULE MCRepositories ---------------------------
EXTENDS Repositories

MCScenarios == {
  {"force", "retry", "again", "giterr", "hangup", "rmerr"},
  {"delete", "force", "retry", "import", "session", "giterr", "storeerr"},
  {"on", "off", "retry", "hookerr", "giterr"},
  {"on", "off", "force", "hangup"},
  {"on", "off", "crash", "hookerr"},
  {"on", "retry", "storeerr", "giterr", "close"},
  {"retry", "again", "crash", "close", "giterr", "force"}}

\* A client that hangs up on a forced Delete.
MCHangup == {{"force", "hangup"}}
=============================================================================
