--------------------------- MODULE MCClangTidyLint ---------------------------
EXTENDS ClangTidyLint, MCLintTree
=============================================================================
