------------------------ MODULE MCTestVideoLauncher ------------------------
EXTENDS TestVideoLauncher

\* SSH fails at the upload of the sources and from the end of the run on.
Unreliable == {"sync", "verify", "download"}
============================================================================
