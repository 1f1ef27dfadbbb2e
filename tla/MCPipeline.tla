----------------------------- MODULE MCPipeline -----------------------------
(* TLC instances of the pipeline: a standard library of two files and a     *)
(* project of a main file and a library beside it.                          *)
EXTENDS Pipeline

ProjectNames == {"src/main", "src/a", "a", "base", "internal", "gone"}
ProjectPaths == {"/src/main", "/src/a", "/std/base", "/std/internal"}
ProjectDirs == {".", "std", "src"}
ProjectModules == {"main", "base", "internal", "a"}
ProjectLookups == <<".", "std">>
ProjectDirOf ==
    [p \in ProjectPaths |-> IF p \in {"/src/main", "/src/a"} THEN "src" ELSE "std"]

\* The library is "src/a" from the project's directory and "a" beside main.
ProjectAt ==
    [d \in ProjectDirs |-> [n \in ProjectNames |->
        CASE d = "." /\ n = "src/main" -> "/src/main"
          [] d = "." /\ n = "src/a" -> "/src/a"
          [] d = "src" /\ n = "a" -> "/src/a"
          [] d = "std" /\ n = "base" -> "/std/base"
          [] d = "std" /\ n = "internal" -> "/std/internal"
          [] OTHER -> "none"]]

ImportFile(n) == [file |-> n, module |-> "-"]
ImportName(m) == [file |-> "none", module |-> m]
FileOf(module, imports) == [readable |-> TRUE, module |-> module, imports |-> imports]

\* The standard library and a main file with these imports, and a file "a".
Project(mainImports, a) ==
    [p \in ProjectPaths |->
        CASE p = "/src/main" -> FileOf("main", mainImports)
          [] p = "/src/a" -> a
          [] p = "/std/base" -> FileOf("base", << >>)
          [] p = "/std/internal" -> FileOf("internal", << >>)]

\* The main file and the library import each other and share a module.
Cyclic == Project(<<ImportFile("a"), ImportFile("base")>>,
                  FileOf("main", <<ImportFile("src/main"), ImportName("base")>>))

\* The same file imported twice, which has no module header.
Headerless == Project(<<ImportFile("a"), ImportFile("src/a")>>, FileOf("-", << >>))

\* More missing imports than RaiseError survives.
Missing == Project(<<ImportFile("gone"), ImportFile("a")>>, FileOf("a", <<ImportFile("gone")>>))

\* A module that no file declares, and a file that is found and cannot be read.
Unreadable == Project(<<ImportName("a"), ImportFile("a")>>,
                      [readable |-> FALSE, module |-> "a", imports |-> << >>])

\* A main file without imports, for a build that makes the library itself.
Alone == Project(<< >>, FileOf("a", << >>))

\* The content of the custom file, which imports the standard library.
ProjectCustom == [p \in ProjectPaths |-> FileOf("a", <<ImportFile("base")>>)]

\* The standard library is named by the build and imported by the main file.
OneTarget ==
    <<[initial |-> <<"src/main", "base", "internal">>, custom |-> << >>,
       entry |-> "main"]>>

\* A build file, and then a target with a file that is not on disk.
BuildThenTarget ==
    <<[initial |-> <<"base", "internal">>, custom |-> << >>, entry |-> "base"],
      [initial |-> <<"internal">>, custom |-> <<"/src/a">>, entry |-> "a"]>>

\* A file without a header that no import comes across.
Stray == Project(<< >>, FileOf("-", << >>))
WithStray == <<[initial |-> <<"base", "internal", "src/a">>, custom |-> << >>, entry |-> "base"]>>

\* A target whose custom file says that it is from a file which cannot be read.
WithCustom == <<[initial |-> <<"base", "internal">>, custom |-> <<"/src/a">>, entry |-> "base"]>>

MCBuilds ==
    {[text |-> t, rounds |-> OneTarget] : t \in {Cyclic, Headerless, Missing, Unreadable}}
    \cup {[text |-> Alone, rounds |-> BuildThenTarget], [text |-> Stray, rounds |-> WithStray],
          [text |-> Unreadable, rounds |-> WithCustom]}
=============================================================================
