---------------------------- MODULE MC_ATProgram ----------------------------
EXTENDS ATProgram

MCAllModes == {"path1", "path2", "apple1", "apple2", "linux"}
=============================================================================
