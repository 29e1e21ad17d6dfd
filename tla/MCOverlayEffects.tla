--------------------------- MODULE MCOverlayEffects ---------------------------
\* Three effects of any kinds among a pause, a resume, a clear and a reconnect.
EXTENDS OverlayEffects
=============================================================================
