------------------------- MODULE MCSubtaskPipeline -------------------------
(***************************************************************************)
(* Prompts that name a source file and its test, one file in two           *)
(* spellings, or a manifest, or that speak of a class and its tests, in a  *)
(* workspace with a source file, its manifest, a generated file and none   *)
(* of the tests; and argument lists without a prompt or a workspace.       *)
(***************************************************************************)
EXTENDS TaskSession

CONSTANTS both, twice, manifest, entity, anything, here, elsewhere, nowhere

Calc == File("src", "calc", FALSE, "ts")
Test == File("tests", "calc", TRUE, "ts")
Manifest == File(".", "package", FALSE, "json")
Package == File(".", "package", FALSE, "js")
Generated == File("dist", "calc", FALSE, "ts")

MCFiles == {Calc, Test, Manifest, Package, Generated}
MCExisting == {Calc, Manifest, Generated}
MCListing == <<Generated, Manifest, Calc>>
MCProtected == {Manifest}
MCProtectedBasenames == {[name |-> "package", ext |-> "json"], [name |-> "setup", ext |-> "py"]}
MCEdited == {Calc, Test}
MCConfigured == <<"npm run build", "npm test">>

Mention(dir, f) == [f EXCEPT !.dir = dir]
About(mentions, e, t) == [mentions |-> mentions, entity |-> e, tests |-> t]
MCMeaning ==
  <<both>> :> About(<<Mention("tests", Test), Mention("", Calc)>>, Nothing, Nothing)
  @@ <<twice>> :> About(<<Mention("src", Calc), Mention("", Calc)>>, Nothing, Nothing)
  @@ <<manifest>> :> About(<<Mention("", Manifest)>>, Nothing, Nothing)
  @@ <<entity>> :> About(<<>>, "calc", "calc")
  @@ <<anything>> :> About(<<>>, Nothing, Nothing)
  @@ <<>> :> About(<<>>, Nothing, Nothing)

Dir(holds, parses, scripts) == [holds |-> holds, parses |-> parses, scripts |-> scripts]
MCDirectories ==
  here :> [exists |-> TRUE,
           chain |-> <<Dir({}, TRUE, {}), Dir({"package.json", ".git"}, TRUE, {"test"})>>]
  @@ elsewhere :> [exists |-> TRUE, chain |-> <<Dir({"package.json"}, FALSE, {})>>]
  @@ nowhere :> [exists |-> FALSE, chain |-> <<Dir({}, TRUE, {})>>]

MCArguments ==
  { <<"run", "--task", both>>, <<twice>>, <<"--other", "run", "--task", entity, twice>>,
    <<"--workspace", elsewhere, manifest>>, <<anything, "">>,
    <<"run", "--workspace", nowhere, both>>, <<"--workspace", here, "--task", "">>, <<"--task">> }

MCPlans == {PlanOf[list] : list \in MCArguments}

Block(f, c, l) == [file |-> f, code |-> c, language |-> l]

\* Good blocks; prose; none; a block for another file, for a manifest; three
\* blocks without a language (55 percent), and two of them with one of a
\* wrong language (60 percent).
MCResponses ==
  { <<Block(Aimed, TRUE, "matching")>>,
    <<Block(Unnamed, TRUE, "matching")>>,
    <<Block(Aimed, FALSE, "matching")>>,
    <<>>,
    <<Block(Aimed, TRUE, "matching"), Block(Test, TRUE, "matching")>>,
    <<Block(Manifest, TRUE, "matching")>>,
    [k \in 1..3 |-> Block(Aimed, TRUE, "none")],
    <<Block(Aimed, TRUE, "none"), Block(Aimed, TRUE, "none"), Block(Aimed, TRUE, "other")>> }
=============================================================================
