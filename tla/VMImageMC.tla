------------------------------ MODULE VMImageMC ------------------------------
EXTENDS VMImage

ThreeVersions == {"v1", "v2", "v3"}

=============================================================================
