--------------------------- MODULE MCDatasetVolume ---------------------------
EXTENDS DatasetVolume
=============================================================================
