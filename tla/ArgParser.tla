----------------------------- MODULE ArgParser ------------------------------
(***************************************************************************)
(* The command line parser of src/arg_parser.c.  A token is what the user  *)
(* typed, as its prefix ("long", "short" or "bare") and the text behind.   *)
(* The command line becomes known two tokens ahead of the parser, which    *)
(* never looks further.                                                    *)
(***************************************************************************)
EXTENDS Integers, Sequences, SequencesExt, FiniteSetsExt

CONSTANTS Commands,   \* each command: its names, subcommands, arguments, handler
          Roots,      \* the root's commands
          Tokens,     \* what a user types
          Numeral,    \* the numbers among the texts
          MaxArgv,    \* bound: tokens on a command line
          MaxParsed   \* MAX_PARSED_ARGS

Values == Seq(Int) \cup Seq(Tokens)
ArgumentType ==
  [type : {"named", "positional"}, value_type : STRING, name : STRING, short_name : STRING,
   position : Nat, required : BOOLEAN, multiple_allowed : BOOLEAN, default : Values,
   allowed : SUBSET Values]
CommandType ==
  [name : STRING, short_name : STRING, commands : SUBSET DOMAIN Commands,
   arguments : Seq(ArgumentType), handler : BOOLEAN]

ASSUME ArgAssumption ==
  /\ MaxArgv \in Nat /\ MaxParsed \in Nat /\ Roots \subseteq DOMAIN Commands
  /\ \A c \in DOMAIN Commands : Commands[c] \in CommandType
  /\ Tokens \subseteq [prefix : {"long", "short", "bare"}, text : STRING]
  /\ Numeral \in [DOMAIN Numeral -> Int]

VARIABLES argv, ended,  \* the command line as far as it is known
          i,            \* tokens consumed
          at,           \* where the parser is: "root", "dispatch", "parse", "call", "done"
          cmd,          \* the command found, and the tokens that named it
          parsed,       \* storage, fulfilled and next_positional of parse_command_args
          outcome,      \* what arg_parser_process_args returns
          handed,       \* what each call of a handler was given
          heap          \* arrays allocated and not freed

argVars == <<argv, ended, i, at, cmd, parsed, outcome, handed, heap>>

NoParsed == [storage |-> <<>>, fulfilled |-> {}, next_positional |-> 0]
ArgInit ==
  /\ argv = <<>> /\ ended = FALSE /\ i = 0 /\ at = "root" /\ cmd = [name |-> "none", tokens |-> 0]
  /\ parsed = NoParsed /\ outcome = "none" /\ handed = <<>> /\ heap = 0

Type ==
  /\ at # "done" /\ ~ended /\ Len(argv) < i + 2
  /\ \/ Len(argv) < MaxArgv /\ (\E t \in Tokens : argv' = Append(argv, t)) /\ UNCHANGED ended
     \/ ended' = TRUE /\ UNCHANGED argv
  /\ UNCHANGED <<i, at, cmd, parsed, outcome, handed, heap>>

(* The parser goes on when it can see what it may look at.                 *)
Sees == Len(argv) >= i + 2 \/ ended
More == i < Len(argv)
Current == argv[i + 1]
IsHelp(token) == token.prefix = "long" /\ token.text \in {"help", "long-help"}

Null == ""  \* a name that is NULL
Exit(res) == at' = "done" /\ outcome' = res
Same == UNCHANGED <<argv, ended>>
FindCommand(names) ==
  {c \in names : Current.prefix = "bare" /\ Current.text \in {Commands[c].name, Commands[c].short_name} \ {Null}}

(* arg_parser_process_args.                                                *)
ProcessArgs ==
  /\ at = "root" /\ Sees /\ Same
  /\ \/ /\ ~More /\ Exit("invalid_argument") /\ UNCHANGED <<i, cmd>>
     \/ /\ More /\ (Roots = {} \/ IsHelp(Current)) /\ Exit("ok") /\ UNCHANGED <<i, cmd>>
     \/ /\ More /\ Roots # {} /\ ~IsHelp(Current) /\ FindCommand(Roots) = {}
        /\ Exit("invalid_argument") /\ UNCHANGED <<i, cmd>>
     \/ /\ More /\ ~IsHelp(Current)
        /\ \E c \in FindCommand(Roots) : cmd' = [name |-> c, tokens |-> i + 1]
        /\ i' = i + 1 /\ at' = "dispatch" /\ UNCHANGED outcome
  /\ UNCHANGED <<parsed, handed, heap>>

(* dispatch, down to the command that has the handler.                     *)
This == Commands[cmd.name]
Subcommands == IF More THEN FindCommand(This.commands) ELSE {}
Dispatch ==
  /\ at = "dispatch" /\ Sees /\ Same
  /\ \/ /\ More /\ IsHelp(Current) /\ Exit("ok") /\ UNCHANGED <<i, cmd>>
     \/ /\ \E c \in Subcommands : cmd' = [name |-> c, tokens |-> i + 1]
        /\ i' = i + 1 /\ UNCHANGED <<at, outcome>>
     \/ /\ ~(More /\ IsHelp(Current)) /\ Subcommands = {} /\ ~This.handler
        /\ Exit(IF This.commands # {} THEN "invalid_argument" ELSE "invalid_state")
        /\ UNCHANGED <<i, cmd>>
     \/ /\ ~(More /\ IsHelp(Current)) /\ Subcommands = {} /\ This.handler
        /\ at' = "parse" /\ UNCHANGED <<i, cmd, outcome>>
  /\ UNCHANGED <<parsed, handed, heap>>
-----------------------------------------------------------------------------
Arguments == This.arguments
First(S) == CHOOSE j \in S : \A k \in S : j <= k
Seen == parsed.fulfilled

(* parse_value, the restrictions and the custom validator of an argument.  *)
(* A value is a sequence of one; nothing stands for one that is refused.   *)
ValueOf(token, a) ==
  LET number == IF token.prefix = "short" THEN -Numeral[token.text] ELSE Numeral[token.text] IN
  CASE a.value_type = "string" -> <<token>>
    [] a.value_type = "int32" /\ token.text \in DOMAIN Numeral /\ token.prefix # "long" -> <<number>>
    [] OTHER -> <<>>
Accepted(token, a) == ValueOf(token, a) # <<>> /\ (a.allowed = {} \/ ValueOf(token, a) \in a.allowed)

(* An argument that was found is stored with its value; n tokens are used. *)
Store(j, value, n, positional) ==
  /\ i' = i + n /\ UNCHANGED <<at, outcome>>
  /\ parsed' = [storage |-> Append(parsed.storage, [id |-> j, value |-> value, is_default |-> FALSE]),
                fulfilled |-> Seen \cup {j}, next_positional |-> parsed.next_positional + positional]

HelpWanted == /\ at = "parse" /\ Sees /\ More /\ IsHelp(Current) /\ Exit("ok") /\ Same
              /\ UNCHANGED <<i, cmd, parsed, handed, heap>>

Repeated_Fault(j) == FALSE
Repeated(j) == j \in Seen /\ ~Arguments[j].multiple_allowed
Named ==
  /\ at = "parse" /\ Sees /\ More /\ ~IsHelp(Current) /\ Current.prefix \in {"long", "short"} /\ Same
  /\ LET field == IF Current.prefix = "long" THEN "name" ELSE "short_name"
         found == {j \in DOMAIN Arguments : Arguments[j].type = "named"
                                            /\ Arguments[j][field] = Current.text /\ Current.text # Null}
         j     == First(found)
         full  == Len(parsed.storage) >= MaxParsed
         free  == found # {} /\ ~Repeated(j)
         takes == Arguments[j].value_type # "none"
         good  == i + 2 <= Len(argv) /\ Accepted(argv[i + 2], Arguments[j])
     IN  \/ ~free /\ Exit("invalid_argument") /\ UNCHANGED <<i, parsed>>
         \/ free /\ full /\ Exit("insufficient_size") /\ UNCHANGED <<i, parsed>>
         \/ free /\ ~full /\ ~takes /\ Store(j, <<1>>, 1, 0)
         \/ free /\ ~full /\ takes /\ ~good /\ Exit("invalid_argument") /\ UNCHANGED <<i, parsed>>
         \/ free /\ ~full /\ takes /\ good /\ Store(j, ValueOf(argv[i + 2], Arguments[j]), 2, 0)
  /\ UNCHANGED <<cmd, handed, heap>>

Advances == 1
Positional ==
  /\ at = "parse" /\ Sees /\ More /\ Current.prefix = "bare" /\ Same
  /\ LET found == {j \in DOMAIN Arguments : Arguments[j].type = "positional"
                                            /\ Arguments[j].position = parsed.next_positional}
         j     == First(found)
         full  == Len(parsed.storage) >= MaxParsed
     IN  \/ found = {} /\ Exit("invalid_argument") /\ UNCHANGED <<i, parsed>>
         \/ found # {} /\ full /\ Exit("insufficient_size") /\ UNCHANGED <<i, parsed>>
         \/ /\ found # {} /\ ~full /\ ~Accepted(Current, Arguments[j])
            /\ Exit("invalid_argument") /\ UNCHANGED <<i, parsed>>
         \/ /\ found # {} /\ ~full /\ Accepted(Current, Arguments[j])
            /\ Store(j, ValueOf(Current, Arguments[j]), 1, Advances)
  /\ UNCHANGED <<cmd, handed, heap>>

(* The end of the command line: what is missing and has a default gets it, *)
(* in the order of the definitions; then the array for the handler, which  *)
(* is NULL when there is nothing to give.                                  *)
Wanting == {j \in DOMAIN Arguments \ Seen : Arguments[j].required}
Missing == {j \in DOMAIN Arguments \ Seen : Arguments[j].default # <<>>}
DefinitionOrder(d) == Range(d) = Missing /\ \A k, m \in DOMAIN d : k < m => d[k] < d[m]
Filled(d) == parsed.storage \o [k \in DOMAIN d |->
               [id |-> d[k], value |-> Arguments[d[k]].default, is_default |-> TRUE]]
FillDefaults ==
  /\ at = "parse" /\ Sees /\ ~More /\ Same
  /\ \E d \in [1 .. Cardinality(Missing) -> Missing] :
       LET room    == MaxParsed - Len(parsed.storage)
           without == {d[k] : k \in room + 1 .. Cardinality(Missing)}
           stops   == Wanting \cup without IN
       /\ DefinitionOrder(d)
       /\ \/ /\ stops # {} /\ UNCHANGED <<parsed, heap>>
             /\ Exit(IF First(stops) \in Wanting THEN "invalid_argument" ELSE "insufficient_size")
          \/ stops = {} /\ Filled(d) # <<>> /\ Exit("error") /\ UNCHANGED <<parsed, heap>>
          \/ /\ stops = {} /\ at' = "call" /\ parsed' = [parsed EXCEPT !.storage = Filled(d)]
             /\ heap' = (IF Filled(d) = <<>> THEN 0 ELSE 1) /\ UNCHANGED outcome
  /\ UNCHANGED <<i, cmd, handed>>

Released(arrays) == 0
CallHandler ==
  /\ at = "call" /\ Same
  /\ handed' = Append(handed, parsed.storage) /\ heap' = Released(heap)
  /\ \E r \in {"ok", "error"} : Exit(r)
  /\ UNCHANGED <<i, cmd, parsed>>

ArgNext == \/ Type \/ ProcessArgs \/ Dispatch \/ HelpWanted \/ Named \/ Positional
           \/ FillDefaults \/ CallHandler
ArgSpec == ArgInit /\ [][ArgNext]_argVars
-----------------------------------------------------------------------------
ArgTypeOK ==
  /\ i <= Len(argv) /\ Len(argv) <= MaxArgv /\ Len(parsed.storage) <= MaxParsed
  /\ Len(handed) <= 1 /\ heap \in {0, 1} /\ (at = "done" => heap = 0 /\ outcome # "none")
  /\ \A k \in DOMAIN parsed.storage : parsed.storage[k].id \in DOMAIN Arguments

(* A handler can rely on its schema: a required argument is there and was  *)
(* typed, one with a default is there, one that may not repeat is there at *)
(* most once, and a typed value is an allowed one.                         *)
Given(j, arguments) == {k \in DOMAIN arguments : arguments[k].id = j}
Typed(e) == ~e.is_default
SchemaKept(schema, arguments) ==
  \A j \in DOMAIN schema :
    LET a == schema[j]
        given == Given(j, arguments) IN
    /\ a.required => \E k \in given : Typed(arguments[k])
    /\ a.default # <<>> => given # {}
    /\ \A k, m \in given : k # m => a.multiple_allowed /\ Typed(arguments[k])
    /\ a.allowed # {} /\ a.value_type # "none" =>
         \A k \in given : Typed(arguments[k]) => arguments[k].value \in a.allowed
HandlerGetsSchema == \A c \in DOMAIN handed : SchemaKept(Arguments, handed[c])

(* What a handler gets is the whole command line: the words behind the     *)
(* command can be cut into pieces that are the typed arguments in turn,    *)
(* each under one of its names and with its value; the positional ones     *)
(* stand in their order.                                                   *)
ValueTokens(a, value) == IF a.value_type = "none" THEN {<<>>}
                         ELSE {<<t>> : t \in {t \in Tokens : ValueOf(t, a) = value}}
Spellings(a, value) ==
  IF a.type = "positional" THEN ValueTokens(a, value)
  ELSE {<<n>> \o v : n \in {[prefix |-> "long", text |-> a.name], [prefix |-> "short", text |-> a.short_name]},
                     v \in ValueTokens(a, value)}
Says(schema, words, arguments) ==
  \E cut \in [0 .. Len(arguments) -> 0 .. Len(words)] :
    /\ cut[0] = 0 /\ cut[Len(arguments)] = Len(words)
    /\ \A k \in DOMAIN arguments :
         LET e == arguments[k]
             piece == SubSeq(words, cut[k - 1] + 1, cut[k]) IN
         /\ cut[k - 1] <= cut[k]
         /\ IF Typed(e) THEN piece \in Spellings(schema[e.id], e.value) ELSE piece = <<>>
Positionals(schema, arguments) ==
  {k \in DOMAIN arguments : Typed(arguments[k]) /\ schema[arguments[k].id].type = "positional"}
Ordered(schema, arguments) ==
  \A k \in Positionals(schema, arguments) :
    schema[arguments[k].id].position = Cardinality({m \in Positionals(schema, arguments) : m < k})
Words(upto) == SubSeq(argv, cmd.tokens + 1, upto)
CommandLineIsSaid ==
  \A c \in DOMAIN handed : Says(Arguments, Words(Len(argv)), handed[c]) /\ Ordered(Arguments, handed[c])

(* Without a call of the handler the outcome is ok only where a help flag  *)
(* stands in the place of an argument, or a program has no commands: no    *)
(* error is returned as success.                                           *)
OkIsDeserved ==
  at = "done" /\ outcome = "ok" /\ handed = <<>> /\ Roots # {} =>
    More /\ Current.prefix = "long" /\ Current.text \in {"help", "long-help"}

(* Together: a handler is called with the command line that was typed, as  *)
(* its schema allows it, or an error is reported.                          *)
HandlerGetsCommandLine == ArgTypeOK /\ HandlerGetsSchema /\ CommandLineIsSaid /\ OkIsDeserved
=============================================================================
