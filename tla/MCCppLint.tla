------------------------------ MODULE MCCppLint ------------------------------
EXTENDS CppLint, MCLintTree
=============================================================================
