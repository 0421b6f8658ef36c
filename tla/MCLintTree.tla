----------------------------- MODULE MCLintTree -----------------------------
(* A small source tree for the lint models: a source directory, the       *)
(* skipped third_party/, out/ and generator test directory, a .git        *)
(* directory, and outputs/, whose name starts with the skipped "out".     *)
EXTENDS Naturals

GenTests == <<"src", "bin", "config_parser", "src", "source_generator",
              "source_generator_test_files">>

MCDirPaths ==
    {<<>>, <<"src">>, <<"third_party">>, <<"out">>, <<"outputs">>,
     <<".git">>}
    \cup {[n \in 1..k |-> GenTests[n]] : k \in 1..6}

F(d, e, t, l, g, c) ==
    [dir |-> d, ext |-> e, test |-> t, link |-> l, guard |-> g, compiled |-> c]

MCFileSpecs ==
    { F(<<"src">>, "h", FALSE, FALSE, TRUE, FALSE),
      F(<<"src">>, "h", FALSE, FALSE, FALSE, FALSE),
      F(<<"src">>, "h", FALSE, TRUE, FALSE, FALSE),
      F(<<"src">>, "cc", FALSE, FALSE, FALSE, TRUE),
      F(<<"src">>, "cc", TRUE, FALSE, FALSE, TRUE),
      F(<<"third_party">>, "cc", FALSE, FALSE, FALSE, TRUE),
      F(GenTests, "h", FALSE, FALSE, FALSE, FALSE),
      F(<<"outputs">>, "cc", FALSE, FALSE, FALSE, TRUE),
      F(<<"src">>, "other", FALSE, FALSE, FALSE, FALSE),
      F(<<".git">>, "other", FALSE, FALSE, FALSE, FALSE) }

MCHiddenNames == {".git"}

MCProperPrefixes == {<<"out", "outputs">>}

(* Each kind of file absent or present once; or absent or 256 times.      *)
OneEach == {0, 1}
Many == {0, 256}

(* Exit statuses are 8 bits wide.                                        *)
MCExitModulus == 2^8
MCGolintResults == {0, 1}
=============================================================================
