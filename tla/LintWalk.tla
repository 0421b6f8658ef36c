------------------------------ MODULE LintWalk ------------------------------
(***************************************************************************)
(* The directory walk shared by the two C++ lint scripts, tools/cpplint.py *)
(* and tools/clang_tidy.py: os.walk from SRC_ROOT_DIR, top down, collects *)
(* every .h and .cc file into clang_tidy_files or, when the path matches  *)
(* TEST_FILE_REGEX, into clang_tidy_test_files, and before descending     *)
(* removes from dirs the subdirectories the script skips.  The two        *)
(* scripts differ in that skip rule, which is a parameter here.            *)
(*                                                                         *)
(* A directory is the sequence of names of its path below SRC_ROOT_DIR    *)
(* (<<>> is SRC_ROOT_DIR itself).  A file is a record: its directory, its *)
(* extension, whether its path matches TEST_FILE_REGEX, whether it is a   *)
(* symbolic link, whether it carries the COBALT_..._ header guard, and    *)
(* whether the compilation database lists it.  The file system holds a    *)
(* number of files alike in all of these (contents).                       *)
(***************************************************************************)
EXTENDS Naturals, Sequences, SequencesExt

CONSTANTS
    DirPaths,        \* the directories of the tree, as sequences of
                     \* names, closed under prefixes
    FileSpecs,       \* the kinds of file the tree may hold
    Multiplicities,  \* how many files of one kind the tree may hold
    HiddenNames,     \* directory names that start with "."
    ProperPrefixes   \* pairs <<a, b>> of names where a is a proper string
                     \* prefix of b ("out" and "outputs")

ASSUME TreeAssumption ==
    /\ DirPaths \subseteq Seq(STRING)
    /\ <<>> \in DirPaths
    /\ \A d \in DirPaths : \A k \in 0..Len(d) : SubSeq(d, 1, k) \in DirPaths
    /\ \A f \in FileSpecs : f.dir \in DirPaths
    /\ Multiplicities \subseteq Nat

Exts == {"h", "cc", "other"}

File == [dir: DirPaths, ext: Exts, test: BOOLEAN, link: BOOLEAN,
         guard: BOOLEAN, compiled: BOOLEAN]

(* SKIP_LINT_DIRS, below SRC_ROOT_DIR.                                     *)
SKIP_LINT_DIRS ==
    {<<"out">>, <<"sysroot">>, <<"third_party">>,
     <<"src", "bin", "config_parser", "src", "source_generator",
       "source_generator_test_files">>}

(* The string os.path.join(SRC_ROOT_DIR, *p) is a prefix of the string    *)
(* os.path.join(SRC_ROOT_DIR, *q): all names but the last of p are those *)
(* of q, and the last is the same name or a proper prefix of q's.          *)
StrPrefix(p, q) ==
    \/ p = <<>>
    \/ /\ Len(p) <= Len(q)
       /\ IsPrefix(Front(p), q)
       /\ \/ Last(p) = q[Len(p)]
          \/ <<Last(p), q[Len(p)]>> \in ProperPrefixes

(* d lies in a directory the scripts are meant to leave out: one of       *)
(* SKIP_LINT_DIRS or a directory whose name starts with ".".              *)
InSkipped(d) ==
    \E k \in 1..Len(d) :
        SubSeq(d, 1, k) \in SKIP_LINT_DIRS \/ d[k] \in HiddenNames

Children(d) == {c \in DirPaths : Len(c) = Len(d) + 1 /\ Front(c) = d}

IsSource(f) == f.ext \in {"h", "cc"}

(* TEST_FILE_REGEX '.*_(unit)?tests?.cc$' only matches .cc paths.         *)
IsTest(f) == f.ext = "cc" /\ f.test

VARIABLES
    contents,   \* how many files of each kind the tree holds
    toVisit,    \* directories os.walk has still to yield
    sources,    \* the kinds of file in clang_tidy_files
    tests       \* the kinds of file in clang_tidy_test_files

walkVars == <<contents, toVisit, sources, tests>>

WalkTypeOK ==
    /\ contents \in [FileSpecs -> Multiplicities]
    /\ toVisit \subseteq DirPaths
    /\ sources \subseteq {f \in FileSpecs : IsSource(f) /\ ~IsTest(f)}
    /\ tests \subseteq {f \in FileSpecs : IsTest(f)}

WalkInit ==
    /\ contents \in [FileSpecs -> Multiplicities]
    /\ toVisit = {<<>>}
    /\ sources = {}
    /\ tests = {}

(* The files of the tree in directory d.                                   *)
FilesIn(d) == {f \in FileSpecs : f.dir = d /\ contents[f] > 0}

(* The entries the compilation database lists (the files compiled).        *)
CompileDb == {f \in FileSpecs : contents[f] > 0 /\ f.compiled}

(* Bug variant: every file is collected, whatever its extension.          *)
ClassifyAll(d) ==
    /\ sources' = sources \cup {f \in FilesIn(d) : ~IsTest(f)}
    /\ tests' = tests \cup {f \in FilesIn(d) : IsTest(f)}

(* The loop over files: .h and .cc files go to clang_tidy_test_files when *)
(* their path matches TEST_FILE_REGEX, else to clang_tidy_files.           *)
Classify(d) ==
    /\ sources' = sources \cup {f \in FilesIn(d) : IsSource(f) /\ ~IsTest(f)}
    /\ tests' = tests \cup {f \in FilesIn(d) : IsTest(f)}

(* One iteration of "for root, dirs, files in os.walk(SRC_ROOT_DIR)":     *)
(* the files of root are classified and the subdirectories in skipped     *)
(* (those the script's skip rule holds for) are removed from dirs, so     *)
(* that os.walk does not descend into them.  The order of the walk does   *)
(* not change the lists as sets, so the next directory is chosen          *)
(* deterministically.                                                      *)
WalkStep(skipped) ==
    LET root == CHOOSE d \in toVisit : TRUE
    IN  /\ toVisit # {}
        /\ Classify(root)
        /\ toVisit' = (toVisit \ {root}) \cup (Children(root) \ skipped)
        /\ UNCHANGED contents

(* The headers among the collected files.                                  *)
Headers == {f \in sources \cup tests : f.ext = "h"}

(* run-clang-tidy.py (not in the repository) runs clang-tidy on the       *)
(* entries of the compilation database matching the files it is given,   *)
(* and on every entry when it is given none.                               *)
TidyTargets(files) ==
    IF files = {} THEN CompileDb ELSE {f \in files : f.compiled}

=============================================================================
