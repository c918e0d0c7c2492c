----------------------------- MODULE ArgParser ------------------------------
(***************************************************************************)
(* ArgParser: a program registers its arguments and parses one command     *)
(* line.  An element of the command line is an option, which names an      *)
(* argument by its long or its short form, or a text.  Of a text the model *)
(* knows what the converters look at.                                      *)
(***************************************************************************)
EXTENDS Naturals, Sequences, FiniteSets, FiniteSetsExt

CONSTANTS
  CandidateLists, \* what programs may register, as sequences of arguments
  Texts,          \* [number : Nat, dash : BOOLEAN, yes : BOOLEAN]: what strtoul()
                  \* reads, whether there is a "-", and whether it spells true
  Options,        \* [form : {"long", "short"}, name : STRING]
  UnsignedRange,  \* 2^32: how many values an unsigned int has
  MaxElements     \* bound on the length of the command line

\* The text an option has that is not followed by one: "true".
TrueText == [number |-> 0, dash |-> FALSE, yes |-> TRUE]

\* The types of ValueArgument that main() uses, and CallbackArgument.
Types == {"unsigned", "bool", "string", "callback"}

Arguments == UNION {{list[n] : n \in DOMAIN list} : list \in CandidateLists}

ASSUME ArgParserAssumption ==
  /\ MaxElements \in Nat
  /\ UnsignedRange \in Nat \ {0}
  /\ TrueText \in Texts
  /\ Texts \subseteq [number : Nat, dash : BOOLEAN, yes : BOOLEAN]
  /\ Options \subseteq [form : {"long", "short"}, name : STRING]
  /\ CandidateLists \subseteq Seq(Arguments)
  /\ \A argument \in Arguments :
       argument.mandatory \in BOOLEAN /\ argument.type \in Types

VARIABLES
  candidates, \* the arguments the program registers
  registered, \* _arguments
  argv,       \* the command line
  at,         \* elementIndex
  current,    \* currentArg: an index of registered, or None
  expecting,  \* nextElementIsValue
  value,      \* _value of each argument
  isSet,      \* the arguments whose _isSet holds
  called,     \* the callbacks that were called, and so have _abortParsing set
  params,     \* _nonArgParams
  outcome     \* "adding", "refused", "parsing", "parsed", or "thrown"

valueVars == <<value, isSet, called>>
parseVars == <<at, current, expecting, valueVars, params>>
vars == <<candidates, registered, argv, parseVars, outcome>>

None == 0

Elements == Options \cup [form : {"text"}, name : Texts]

Init ==
  /\ candidates \in CandidateLists
  /\ registered = <<>>
  /\ argv = <<>>
  /\ at = 1
  /\ current = None
  /\ expecting = FALSE
  /\ value = <<>>
  /\ isSet = {}
  /\ called = {}
  /\ params = <<>>
  /\ outcome = "adding"

-----------------------------------------------------------------------------
(* Registration                                                            *)

\* Mutant of Duplicate: only the short forms are compared.
DuplicateShort(argument) ==
  \E n \in DOMAIN registered :
    argument.short # "" /\ argument.short = registered[n].short

\* checkDuplicate(): any number of arguments may do without a short form.
Duplicate(argument) ==
  \E n \in DOMAIN registered :
    \/ argument.short # "" /\ argument.short = registered[n].short
    \/ argument.long = registered[n].long

Adding == outcome = "adding"

\* The constructor or setDefault() gives the argument its first value.
AddArgument ==
  /\ Adding
  /\ Len(registered) < Len(candidates)
  /\ LET argument == candidates[Len(registered) + 1]
     IN IF Duplicate(argument)
          THEN outcome' = "refused" /\ UNCHANGED <<registered, value>>
          ELSE /\ registered' = Append(registered, argument)
               /\ value' = Append(value, argument.default)
               /\ UNCHANGED outcome
  /\ UNCHANGED <<candidates, argv, at, current, expecting, isSet, called, params>>

StartParse ==
  /\ Adding
  /\ Len(registered) = Len(candidates)
  /\ \E n \in 0 .. MaxElements : argv' \in [1 .. n -> Elements]
  /\ outcome' = "parsing"
  /\ UNCHANGED <<candidates, registered, parseVars>>

-----------------------------------------------------------------------------
(* parse()                                                                 *)

Named(option) == {n \in DOMAIN registered : registered[n][option.form] = option.name}

\* getArgByOpt(): the first argument of that name.  Arguments without a short
\* form have the empty one, so that "-" names the first of them.
ArgByOpt(option) == IF Named(option) = {} THEN None ELSE Min(Named(option))

\* ArgTypeConverter: only an unsigned number may fail to convert, and one that
\* is too large for its type is taken modulo the range of the type.
Converts(n, text) == registered[n].type = "unsigned" => ~text.dash

Converted(n, text) ==
  CASE registered[n].type = "unsigned" -> text.number % UnsignedRange
    [] registered[n].type = "bool"     -> text.yes
    [] OTHER                           -> text

Accepts(n, text) == Converts(n, text) /\ Converted(n, text) \in registered[n].valid

Call(n) == called' = called \cup {n} /\ UNCHANGED <<value, isSet>>

\* Mutant of SetValueFromStr: the argument counts as set whatever was given.
SetValueAlways(n, text) ==
  IF registered[n].type = "callback"
    THEN Call(n)
    ELSE /\ value' = IF Converts(n, text) THEN [value EXCEPT ![n] = Converted(n, text)] ELSE value
         /\ isSet' = isSet \cup {n}
         /\ UNCHANGED called

\* setValueFromStr(), whose result nobody looks at.  The value is overwritten
\* before the validator sees it.
SetValueFromStr(n, text) ==
  IF registered[n].type = "callback"
    THEN Call(n)
    ELSE /\ value' = IF Converts(n, text) THEN [value EXCEPT ![n] = Converted(n, text)] ELSE value
         /\ isSet' = IF Accepts(n, text) THEN isSet \cup {n} ELSE isSet
         /\ UNCHANGED called

\* Mutant of SetPending: an option without a value is passed over.
SetPendingForgotten == UNCHANGED valueVars

\* An option that is not followed by a text has the value "true".
SetPending ==
  IF expecting THEN SetValueFromStr(current, TrueText) ELSE UNCHANGED valueVars

\* shouldAbortParsing() of the current argument.
Aborts == expecting /\ registered[current].type = "callback"

Parsing == outcome = "parsing"

AtOption == Parsing /\ at <= Len(argv) /\ argv[at].form # "text"

AtText == Parsing /\ at <= Len(argv) /\ argv[at].form = "text"

inputVars == <<candidates, registered, argv>>

\* The callback of the option before ends parsing.
OptionAborts ==
  /\ AtOption
  /\ Aborts
  /\ SetPending
  /\ outcome' = "parsed"
  /\ UNCHANGED <<inputVars, at, current, expecting, params>>

Option ==
  /\ AtOption
  /\ ~Aborts
  /\ SetPending
  /\ current' = ArgByOpt(argv[at])
  /\ IF current' = None
       THEN outcome' = "thrown" /\ expecting' = FALSE /\ UNCHANGED at
       ELSE at' = at + 1 /\ expecting' = TRUE /\ UNCHANGED outcome
  /\ UNCHANGED <<inputVars, params>>

Value ==
  /\ AtText
  /\ expecting
  /\ SetValueFromStr(current, argv[at].name)
  /\ IF Aborts
       THEN outcome' = "parsed" /\ UNCHANGED <<at, expecting>>
       ELSE at' = at + 1 /\ expecting' = FALSE /\ UNCHANGED outcome
  /\ UNCHANGED <<inputVars, current, params>>

Parameter ==
  /\ AtText
  /\ ~expecting
  /\ params' = Append(params, argv[at].name)
  /\ at' = at + 1
  /\ UNCHANGED <<inputVars, current, expecting, valueVars, outcome>>

\* isComplete() of every argument.
Complete == \A n \in DOMAIN registered : registered[n].mandatory => n \in isSet'

\* The end of the command line.
End ==
  /\ Parsing
  /\ at > Len(argv)
  /\ SetPending
  /\ outcome' = IF Aborts \/ Complete THEN "parsed" ELSE "thrown"
  /\ UNCHANGED <<inputVars, at, current, expecting, params>>

Next == AddArgument \/ StartParse \/ OptionAborts \/ Option \/ Value \/ Parameter \/ End

Spec == Init /\ [][Next]_vars

-----------------------------------------------------------------------------
(* What a command line means, read as a whole                              *)

OptionAt(k) == argv[k].form # "text"

\* The text that belongs to the option at k.
TextOf(k) == IF k = Len(argv) \/ OptionAt(k + 1) THEN TrueText ELSE argv[k + 1].name

Unknown == {k \in DOMAIN argv : OptionAt(k) /\ Named(argv[k]) = {}}

\* Where the option at k names argument n; "-" names the first without a short form.
Meant(k) == CHOOSE n \in Named(argv[k]) : \A m \in Named(argv[k]) : n <= m

Callbacks ==
  {k \in DOMAIN argv : OptionAt(k) /\ k \notin Unknown /\ registered[Meant(k)].type = "callback"}

\* Where argument n is given a text that passes a test.
GivenAt(n, Test(_)) ==
  {k \in DOMAIN argv : OptionAt(k) /\ k \notin Unknown /\ Meant(k) = n /\ Test(TextOf(k))}

\* A text of which an unsigned argument can make a number.
Numeric(n, text) == registered[n].type # "unsigned" \/ ~text.dash

\* The positions of the texts that belong to no option.
Loose == {k \in DOMAIN argv : ~OptionAt(k) /\ (k = 1 \/ ~OptionAt(k - 1))}

-----------------------------------------------------------------------------
(* Properties                                                              *)

\* What the value of an argument may be: its default, or what was converted.
ValuesOf(argument) ==
  {argument.default} \cup (CASE argument.type = "unsigned" -> 0 .. UnsignedRange - 1
                             [] argument.type = "bool"     -> BOOLEAN
                             [] argument.type = "string"   -> Texts
                             [] argument.type = "callback" -> {})

\* The members of ArgParser keep to their types, and each argument has a value
\* of its own type (ArgParser, ValueArgument).
TypeOK ==
  /\ candidates \in CandidateLists
  /\ \E n \in 0 .. Len(candidates) : registered = SubSeq(candidates, 1, n)
  /\ \A k \in DOMAIN argv : IF argv[k].form = "text" THEN argv[k].name \in Texts
                                                    ELSE argv[k] \in Options
  /\ at \in 1 .. Len(argv) + 1
  /\ current \in 0 .. Len(registered)
  /\ expecting \in BOOLEAN
  /\ DOMAIN value = DOMAIN registered
  /\ \A n \in DOMAIN registered : value[n] \in ValuesOf(registered[n])
  /\ isSet \subseteq DOMAIN registered
  /\ called \subseteq DOMAIN registered
  /\ params \in Seq(Texts)
  /\ outcome \in {"adding", "refused", "parsing", "parsed", "thrown"}

\* Two arguments of a list have a name in common.
Clash(list) ==
  \E m, n \in DOMAIN list :
    /\ m # n
    /\ \/ list[m].long = list[n].long
       \/ list[m].short = list[n].short /\ list[n].short # ""

\* Registration refuses a list just when two of its arguments have a name in
\* common, so that while parsing each option names one argument ("-" aside).
\* "In case it is not possible to add the specified argument an exception is
\* thrown" (ArgParser.h:260).
OptionsUnambiguous ==
  /\ outcome = "refused" => Clash(candidates)
  /\ outcome \in {"parsing", "parsed", "thrown"} =>
       \A option \in Options :
         Cardinality(Named(option)) > 1 => option.form = "short" /\ option.name = ""

\* parse() accepts a command line just when a callback comes before the first
\* unknown option, or there is neither and every mandatory argument is given an
\* acceptable text at least once.
OutcomeAsMeant ==
  outcome \in {"parsed", "thrown"} =>
    (outcome = "parsed" <=>
       \/ \E k \in Callbacks : \A j \in Unknown : k < j
       \/ /\ Callbacks \cup Unknown = {}
          /\ \A n \in DOMAIN registered :
               registered[n].mandatory => GivenAt(n, LAMBDA text : Accepts(n, text)) # {})

\* After a command line without callbacks each argument has the last text it
\* was given that converts, and no loose text is lost.  A number that does not
\* fit into its type is another number then.
ValuesAsGiven ==
  outcome = "parsed" /\ Callbacks = {} =>
    /\ \A n \in DOMAIN registered :
         LET given == GivenAt(n, LAMBDA text : Numeric(n, text))
             last == TextOf(Max(given))
         IN IF given = {} THEN value[n] = registered[n].default
            ELSE CASE registered[n].type = "bool"   -> value[n] = last.yes
                   [] registered[n].type = "string" -> value[n] = last
                   [] OTHER -> \E k \in 0 .. last.number : last.number = value[n] + k * UnsignedRange
    /\ Len(params) = Cardinality(Loose)

\* The validators: RangeValidator says which values an argument has, so that
\* after parsing it has one of those, or its default (unless a callback, as
\* that for help, ended the program).
ValuesInRange ==
  outcome = "parsed" /\ called = {} =>
    \A n \in DOMAIN registered : value[n] \in {registered[n].default} \cup registered[n].valid

=============================================================================
