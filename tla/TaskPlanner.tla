----------------------------- MODULE TaskPlanner -----------------------------
(***************************************************************************)
(* Which files a prompt is about: the scan of the workspace by main() and  *)
(* TaskPlanner.planTask().                                                 *)
(*                                                                         *)
(* A file is its directory, its name, whether `.test` follows the name,    *)
(* and its extension; a mention is the same, with the directory "" when    *)
(* the prompt gives a bare name.  A prompt is what the regular expressions *)
(* of the planner can find in it.                                          *)
(***************************************************************************)
EXTENDS Naturals, Sequences, SequencesExt

CONSTANTS
  ProtectedBasenames,  \* [name, ext] of manifests and configurations
  Nothing              \* an expression finds nothing

File(dir, name, test, ext) == [dir |-> dir, name |-> name, test |-> test, ext |-> ext]

-----------------------------------------------------------------------------
(* main(): the scan, and the files the prompt mentions.                    *)

IgnoredDirs == {"node_modules", "dist", "target", "build", "coverage", "logs"}
AllowedExts == {"ts", "tsx", "js", "jsx", "json", "py", "rs", "go", "java",
                "toml", "xml", "gradle", "properties", "yaml", "yml", "md"}
ScanWorkspaceFiles(listing) ==
  SelectSeq(listing, LAMBDA f : f.dir \notin IgnoredDirs /\ f.ext \in AllowedExts)

\* The first alternative of an expression that the extension begins with is
\* what is matched: calc.tsx is read as calc.ts, package.json as package.js.
Read(cut, known, ext) ==
  CASE ext \in DOMAIN cut -> cut[ext] [] ext \in known -> ext [] OTHER -> Nothing
EntryExt(ext) ==
  Read([tsx |-> "ts", jsx |-> "js", json |-> "js"], {"ts", "js", "py", "rs", "go", "java"}, ext)
PlannedExt(ext) ==
  Read([tsx |-> "ts", jsx |-> "js", json |-> "js", css |-> "cs", html |-> "h", mdx |-> "md"],
       {"ts", "js", "mjs", "cjs", "py", "rs", "go", "java", "rb", "cs", "cpp", "c", "h", "md", "txt"},
       ext)

\* A mention that was not scanned is taken for a file below the root.
MentionedFile(m) ==
  File(IF m.dir = "" THEN "." ELSE m.dir, m.name, m.test, EntryExt(m.ext))
WorkspaceFiles(listing, prompt) ==
  FoldLeft(LAMBDA files, m : IF EntryExt(m.ext) = Nothing \/ Contains(files, MentionedFile(m))
                             THEN files ELSE Append(files, MentionedFile(m)),
           ScanWorkspaceFiles(listing), prompt.mentions)

-----------------------------------------------------------------------------
(* TaskPlanner.                                                            *)

IsProtected(f) == ~ f.test /\ [name |-> f.name, ext |-> f.ext] \in ProtectedBasenames
SourceExtensions == {"ts", "tsx", "js", "jsx", "mjs", "cjs", "py", "rs", "go", "java",
                     "kt", "rb", "cs", "cpp", "c", "h", "md", "txt"}
IsSourceFile(f) == ~ IsProtected(f) /\ f.ext \in SourceExtensions

\* Array.find(): the first such file, as a sequence of one, or the empty one.
Find(files, P(_)) ==
  LET found == SelectSeq(files, P) IN IF found = <<>> THEN <<>> ELSE <<found[1]>>

\* f === raw || f.endsWith('/' + raw)
EndsWith(f, m) ==
  f.name = m.name /\ f.test = m.test /\ f.ext = m.ext /\ (m.dir = "" \/ f.dir = m.dir)

\* Files of the workspace have absolute paths, those that are not there yet
\* relative ones.
ResolveAgainstWorkspace(raw, files) ==
  LET exact == Find(files, LAMBDA f : EndsWith(f, raw))
      dir == CASE raw.dir # "" -> raw.dir [] raw.test -> "tests" [] OTHER -> "src"
  IN IF exact # <<>> THEN [file |-> exact[1], absolute |-> TRUE]
     ELSE [file |-> [raw EXCEPT !.dir = dir], absolute |-> FALSE]

\* includes('/tests/') does not see a leading `tests/`.
FileOrder(target) ==
  CASE target.file.ext \in {"md", "txt"} -> 3
    [] target.file.test \/ target.file.dir = "__tests__" -> 2
    [] target.absolute /\ target.file.dir \in {"tests", "test"} -> 2
    [] OTHER -> 1
\* Variant: files are not sorted.
KeepOrder(targets) == targets

PrioritySortFiles(targets) ==
  LET Of(n) == SelectSeq(targets, LAMBDA t : FileOrder(t) = n) IN Of(1) \o Of(2) \o Of(3)

\* Each spelling once; protected files never.
RawMentions(prompt) ==
  LET raws == [k \in DOMAIN prompt.mentions |->
                 [prompt.mentions[k] EXCEPT !.ext = PlannedExt(@)]]
      taken(seen, r) == r.ext = Nothing \/ IsProtected(r) \/ Contains(seen, r)
  IN FoldLeft(LAMBDA seen, r : IF taken(seen, r) THEN seen ELSE Append(seen, r), <<>>, raws)
ExtractExplicitFiles(prompt, files) ==
  LET raws == RawMentions(prompt)
  IN PrioritySortFiles([k \in DOMAIN raws |-> ResolveAgainstWorkspace(raws[k], files)])

DetectPrimaryExtension(files) ==
  LET Has(e) == \E k \in DOMAIN files : files[k].ext = e /\ IsSourceFile(files[k])
      found == SelectSeq(<<"ts", "py", "rs", "go", "js">>, Has)
  IN IF found = <<>> THEN "ts" ELSE found[1]

\* "Create a <entity> class", "tests for <tests>": the existing file of that
\* name, or a new one.  Whether a new one is protected is not asked.
InferFromSemanticIntent(prompt, files) ==
  LET ext == DetectPrimaryExtension(files)
      Present(name, test) ==
        Find(files, LAMBDA f : IsSourceFile(f) /\ f.name = name /\ f.test = test)
      Target(name, test, dir) ==
        IF Present(name, test) # <<>> THEN Present(name, test) ELSE <<File(dir, name, test, ext)>>
  IN (IF prompt.entity = Nothing THEN <<>> ELSE Target(prompt.entity, FALSE, "src"))
     \o (IF prompt.tests = Nothing THEN <<>> ELSE Target(prompt.tests, TRUE, "tests"))

PickBestExistingSourceFile(files) == Find(files, IsSourceFile)

\* The targets of the sub-tasks, in their order.
PlanTask(prompt, files) ==
  LET explicit == ExtractExplicitFiles(prompt, files)
      semantic == InferFromSemanticIntent(prompt, files)
      existing == PickBestExistingSourceFile(files)
  IN CASE explicit # <<>> -> [k \in DOMAIN explicit |-> explicit[k].file]
       [] explicit = <<>> /\ semantic # <<>> -> semantic
       [] explicit = <<>> /\ semantic = <<>> /\ existing # <<>> -> existing
       [] OTHER -> <<File("src", "main", FALSE, "ts")>>
=============================================================================
