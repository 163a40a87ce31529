--------------------------- MODULE MCBgpTransports ---------------------------
EXTENDS BgpTransports

CONSTANTS lo, hi

MCDaemon == {lo, hi}
MCWithBfd == {lo}
=============================================================================
