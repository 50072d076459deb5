------------------------------- MODULE MCData -------------------------------
(* Small instances of the library's data structures and parsers for TLC: a *)
(* behaviour is of one of them, the others keep their initial state.       *)
EXTENDS JsonDocument, Lists, Tree, ArgParser, Spans, Base64

VARIABLE which
allVars == <<which, docVars, listVars, treeVars, argVars, spanVars, base64Vars>>

MCStrings == {<<Quote, "x">>, <<Control>>}
MCNames == {<<"x">>, <<"y">>}
MCInts == {7}
MCDoubles == {<<-250, 1>>}
MCTexts == {<<"[", " ", "]">>, <<"[", "[", "7", "]", "]">>, <<"[", "7">>}
MCSymbols == {"{", "}", "]", ",", ":", Quote, Escape, Control, Space, "u", "0", "-", ".", "e", "t"}
MCNumerals == {"-", "0", "1", "2", "3", "4", "6", "7", "8", "."}
MCDelimiters == {<<"-">>, <<"-", "-">>, <<"a", "-">>}

(* A program with subcommands, and all kinds of arguments on one of them.  *)
T(p, t) == [prefix |-> p, text |-> t]
MCTokens ==
  {T("bare", "run"), T("bare", "db"), T("bare", "a"), T("bare", "help"), T("long", "help"),
   T("long", "name"), T("long", "count"), T("short", "n"), T("short", "v"),
   T("short", "5"), T("bare", "5"), T("bare", "9")}
MCNumeral == [n \in {"5", "9"} |-> IF n = "5" THEN 5 ELSE 9]
Arg(type, value_type, name, short_name) ==
  [type |-> type, value_type |-> value_type, name |-> name, short_name |-> short_name, position |-> 0,
   required |-> FALSE, multiple_allowed |-> FALSE, default |-> <<>>, allowed |-> {}]
MCArguments ==
  <<[Arg("named", "string", "name", "n") EXCEPT !.multiple_allowed = TRUE],
    [Arg("named", "int32", "count", "") EXCEPT !.default = <<7>>, !.allowed = {<<5>>, <<-5>>}],
    Arg("named", "none", "", "v"),
    [Arg("positional", "int32", "first", "") EXCEPT !.required = TRUE],
    [Arg("positional", "string", "second", "") EXCEPT !.position = 1]>>
Command(name, short_name, commands, arguments, handler) ==
  [name |-> name, short_name |-> short_name, commands |-> commands, arguments |-> arguments,
   handler |-> handler]
MCCommands ==
  [run |-> Command("run", "a", {"add"}, MCArguments, TRUE),
   db |-> Command("db", "", {"add", "stub"}, <<>>, FALSE),
   add |-> Command("help", "a", {}, <<Arg("named", "none", "", "v")>>, TRUE),
   stub |-> Command("run", "", {}, <<>>, FALSE)]

DataInit ==
  /\ which \in {"json", "list", "ring", "tree", "arguments", "spans", "base64"}
  /\ DocInit /\ ListsInit /\ TreeInit /\ ArgInit /\ SpanInit /\ Base64Init
DataNext ==
  /\ UNCHANGED which
  /\ \/ which = "json" /\ DocNext
        /\ UNCHANGED <<listVars, treeVars, argVars, spanVars, base64Vars>>
     \/ which = "list" /\ ListNext
        /\ UNCHANGED <<docVars, treeVars, argVars, spanVars, base64Vars>>
     \/ which = "ring" /\ CircularNext
        /\ UNCHANGED <<docVars, treeVars, argVars, spanVars, base64Vars>>
     \/ which = "tree" /\ TreeNext
        /\ UNCHANGED <<docVars, listVars, argVars, spanVars, base64Vars>>
     \/ which = "arguments" /\ ArgNext
        /\ UNCHANGED <<docVars, listVars, treeVars, spanVars, base64Vars>>
     \/ which = "spans" /\ SpanNext
        /\ UNCHANGED <<docVars, listVars, treeVars, argVars, base64Vars>>
     \/ which = "base64" /\ Base64Next
        /\ UNCHANGED <<docVars, listVars, treeVars, argVars, spanVars>>
DataSpec == DataInit /\ [][DataNext]_allVars
=============================================================================
