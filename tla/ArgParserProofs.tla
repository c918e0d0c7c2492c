--------------------------- MODULE ArgParserProofs ---------------------------
(***************************************************************************)
(* What parse() makes of a command line of any length, for any arguments:  *)
(* the loop over the elements computes what the line means when it is read *)
(* as a whole.                                                             *)
(***************************************************************************)
EXTENDS ArgParser, FiniteSetTheorems, SequenceTheorems, WellFoundedInduction, TLAPS

AllValues == UNION {ValuesOf(argument) : argument \in Arguments}

\* Where argument n is given a text it accepts, and one that converts.
AcceptedAt(n) ==
  {k \in DOMAIN argv :
     OptionAt(k) /\ k \notin Unknown /\ Meant(k) = n /\ Accepts(n, TextOf(k))}

NumericAt(n) ==
  {k \in DOMAIN argv :
     OptionAt(k) /\ k \notin Unknown /\ Meant(k) = n /\ Numeric(n, TextOf(k))}

\* The arguments that are set by the options before position e.
SetBefore(e) == {n \in DOMAIN registered : \E k \in AcceptedAt(n) : k < e}

\* Value v of argument n is the last that converted before position e.
LastBefore(n, v, e) ==
  \/ v = registered[n].default /\ \A k \in NumericAt(n) : ~(k < e)
  \/ \E k \in NumericAt(n) :
       /\ k < e
       /\ v = Converted(n, TextOf(k))
       /\ \A j \in NumericAt(n) : j < e => j <= k

LooseBefore(e) == {k \in Loose : k < e}

\* The options whose text parse() has dealt with are those before this position.
Edge == IF expecting THEN at - 1 ELSE at

-----------------------------------------------------------------------------
(* The invariant                                                           *)

RegisteredInv ==
  /\ candidates \in CandidateLists
  /\ registered \in Seq(Arguments)
  /\ value \in Seq(AllValues)
  /\ argv \in Seq(Elements)
  /\ \A n \in DOMAIN registered : registered[n] = candidates[n]
  /\ ~Clash(registered)
  /\ outcome = "refused" => Clash(candidates)

AddingInv ==
  Adding => /\ at = 1 /\ ~expecting
            /\ isSet = {} /\ called = {} /\ params = <<>>
            /\ \A n \in DOMAIN registered : value[n] = registered[n].default

\* Which option waits for its text, if one does.
WaitingInv ==
  /\ expecting => at > 1 /\ OptionAt(at - 1) /\ current = Meant(at - 1) /\ current # None
  /\ ~expecting /\ at > 1 => ~OptionAt(at - 1)

ParsingInv ==
  Parsing => /\ WaitingInv
             /\ \A k \in DOMAIN argv : /\ k < at => k \notin Unknown
                                       /\ k < Edge => k \notin Callbacks
             /\ isSet = SetBefore(Edge)
             /\ called = {}
             /\ \A n \in DOMAIN registered : LastBefore(n, value[n], Edge)
             /\ Len(params) = Cardinality(LooseBefore(at))

\* OutcomeAsMeant and ValuesAsGiven in terms of these sets.
OutcomeInv ==
  outcome \in {"parsed", "thrown"} =>
    (outcome = "parsed" <=>
       \/ \E k \in Callbacks : \A j \in Unknown : k < j
       \/ /\ Callbacks \cup Unknown = {}
          /\ \A n \in DOMAIN registered : registered[n].mandatory => AcceptedAt(n) # {})

ValueMeant(n, v) ==
  LET given == NumericAt(n)
      last == TextOf(Max(given))
  IN IF given = {} THEN v = registered[n].default
     ELSE CASE registered[n].type = "bool"   -> v = last.yes
            [] registered[n].type = "string" -> v = last
            [] OTHER -> \E k \in 0 .. last.number : last.number = v + k * UnsignedRange

ValuesInv ==
  outcome = "parsed" /\ Callbacks = {} =>
    /\ \A n \in DOMAIN registered : ValueMeant(n, value[n])
    /\ Len(params) = Cardinality(Loose)

IInv == /\ TypeOK /\ RegisteredInv /\ AddingInv /\ ParsingInv
        /\ OutcomeInv /\ ValuesInv

-----------------------------------------------------------------------------
(* The lists and the command line                                          *)

LEMMA TextType ==
  ASSUME NEW text \in Texts
  PROVE  text.number \in Nat /\ text.dash \in BOOLEAN /\ text.yes \in BOOLEAN
  BY ArgParserAssumption

\* What the texts of a command line are.
LEMMA ElementType ==
  ASSUME NEW e \in Elements
  PROVE  IF e.form = "text" THEN e.name \in Texts
                            ELSE e \in Options /\ e.form \in {"long", "short"}
  BY ArgParserAssumption DEF Elements

\* A set of natural numbers has a least element: the least among the intervals
\* below its members.
LEMMA LeastExists ==
  ASSUME NEW S, S \subseteq Nat, S # {}
  PROVE  \E m \in S : \A k \in S : m =< k
<1> DEFINE below == {0 .. m : m \in S}
<1>1. below \subseteq FiniteSubsetsOf(Nat) /\ below # {}
  <2>1. \A m \in S : IsFiniteSet(0 .. m) /\ 0 .. m \in SUBSET Nat
    BY FS_Interval
  <2> QED
    BY <2>1 DEF FiniteSubsetsOf
<1>2. PICK t \in below : \A u \in below : <<u, t>> \notin StrictSubsetOrdering(Nat)
  <2> HIDE DEF below
  <2> QED
    BY <1>1, FS_StrictSubsetOrderingWellFounded, WFMin
<1>3. PICK m \in S : t = 0 .. m
  BY <1>2
<1>4. ASSUME NEW k \in S, k < m
      PROVE  FALSE
  <2>1. 0 .. k \subseteq 0 .. m /\ 0 .. k # 0 .. m
    BY <1>4
  <2>2. <<0 .. k, 0 .. m>> \in StrictSubsetOrdering(Nat)
    BY <2>1 DEF StrictSubsetOrdering
  <2> QED
    BY <1>2, <1>3, <1>4, <2>2
<1>5. \A k \in S : m =< k
  BY <1>4
<1> QED
  BY <1>5

\* The arguments that an option names, and which of them it means.
LEMMA NamedFacts ==
  ASSUME RegisteredInv, NEW option
  PROVE  /\ Named(option) \subseteq 1 .. Len(registered)
         /\ Len(registered) \in Nat /\ DOMAIN registered = 1 .. Len(registered)
         /\ ArgByOpt(option) \in 0 .. Len(registered)
         /\ ArgByOpt(option) = None <=> Named(option) = {}
         /\ Named(option) # {} => ArgByOpt(option) = Min(Named(option))
<1>1. Named(option) \subseteq 1 .. Len(registered) /\ Len(registered) \in Nat
      /\ DOMAIN registered = 1 .. Len(registered)
  BY DEF RegisteredInv, Named
<1>2. CASE Named(option) = {}
  BY <1>1, <1>2 DEF ArgByOpt, None
<1>3. CASE Named(option) # {}
  <2>3. \E m \in Named(option) : \A k \in Named(option) : m =< k
    BY <1>1, <1>3, LeastExists
  <2>5. Min(Named(option)) \in Named(option)
    BY <2>3 DEF Min
  <2> QED
    BY <1>1, <1>3, <2>5 DEF ArgByOpt, None
<1> QED
  BY <1>2, <1>3

LEMMA MeantIsArg ==
  ASSUME NEW k
  PROVE  Meant(k) = Min(Named(argv[k]))
BY DEF Meant, Min

\* The command line and the list stay what they are while parse() runs.
LEMMA SameInput ==
  ASSUME UNCHANGED inputVars
  PROVE  /\ Unknown' = Unknown /\ Callbacks' = Callbacks /\ Loose' = Loose
         /\ \A k : OptionAt(k)' = OptionAt(k) /\ Meant(k)' = Meant(k) /\ TextOf(k)' = TextOf(k)
         /\ \A n : AcceptedAt(n)' = AcceptedAt(n) /\ NumericAt(n)' = NumericAt(n)
         /\ \A e : SetBefore(e)' = SetBefore(e) /\ LooseBefore(e)' = LooseBefore(e)
<1> USE DEF inputVars
<1>1. \A k : /\ OptionAt(k)' = OptionAt(k) /\ TextOf(k)' = TextOf(k)
             /\ Named(argv[k])' = Named(argv[k])
  BY DEF OptionAt, TextOf, Named
<1>2. \A k : Meant(k)' = Meant(k)
  BY <1>1 DEF Meant
<1>3. Unknown' = Unknown
  BY <1>1 DEF Unknown
<1>4. Callbacks' = Callbacks
  BY <1>1, <1>2, <1>3 DEF Callbacks
<1>5. Loose' = Loose
  BY <1>1 DEF Loose
<1>6. \A n, text : Accepts(n, text)' = Accepts(n, text) /\ Numeric(n, text)' = Numeric(n, text)
  BY DEF Accepts, Converts, Converted, Numeric
<1>7. \A n : AcceptedAt(n)' = AcceptedAt(n) /\ NumericAt(n)' = NumericAt(n)
  BY <1>1, <1>2, <1>3, <1>6 DEF AcceptedAt, NumericAt
<1>8. \A e : SetBefore(e)' = SetBefore(e) /\ LooseBefore(e)' = LooseBefore(e)
  BY <1>5, <1>7 DEF SetBefore, LooseBefore
<1> QED
  BY <1>1, <1>2, <1>3, <1>4, <1>5, <1>7, <1>8

-----------------------------------------------------------------------------
(* One option with its text                                                *)

LEMMA LineType ==
  ASSUME RegisteredInv
  PROVE  /\ Len(argv) \in Nat /\ DOMAIN argv = 1 .. Len(argv)
         /\ \A k \in DOMAIN argv : argv[k] \in Elements /\ TextOf(k) \in Texts
         /\ \A k \in DOMAIN argv : ~OptionAt(k) => argv[k].name \in Texts
<1>1. /\ Len(argv) \in Nat /\ DOMAIN argv = 1 .. Len(argv)
      /\ \A k \in DOMAIN argv : argv[k] \in Elements
  BY DEF RegisteredInv
<1>2. \A k \in DOMAIN argv : ~OptionAt(k) => argv[k].name \in Texts
  BY <1>1, ElementType DEF OptionAt
<1>3. \A k \in DOMAIN argv : TextOf(k) \in Texts
  <2> TAKE k \in DOMAIN argv
  <2>1. CASE k = Len(argv) \/ OptionAt(k + 1)
    BY <2>1, ArgParserAssumption DEF TextOf
  <2>2. CASE ~(k = Len(argv) \/ OptionAt(k + 1))
    <3>1. k + 1 \in DOMAIN argv
      BY <1>1, <2>2
    <3> QED
      BY <1>2, <2>2, <3>1 DEF TextOf
  <2> QED
    BY <2>1, <2>2
<1> QED
  BY <1>1, <1>2, <1>3

\* What an argument converts is a value of its type.
LEMMA ConvertedType ==
  ASSUME RegisteredInv, NEW n \in DOMAIN registered, registered[n].type # "callback",
         NEW text \in Texts
  PROVE  Converted(n, text) \in ValuesOf(registered[n])
<1>1. registered[n] \in Arguments
  BY DEF RegisteredInv
<1>2. registered[n].type \in {"unsigned", "bool", "string"}
  BY <1>1, ArgParserAssumption DEF Types
<1>3. CASE registered[n].type = "unsigned"
  <2>1. text.number \in Nat /\ UnsignedRange \in Nat /\ UnsignedRange > 0
    BY TextType, ArgParserAssumption
  <2>2. text.number % UnsignedRange \in 0 .. UnsignedRange - 1
    BY <2>1
  <2> QED
    BY <1>3, <2>2 DEF Converted, ValuesOf
<1>4. CASE registered[n].type = "bool"
  BY <1>4, TextType DEF Converted, ValuesOf
<1>5. CASE registered[n].type = "string"
  BY <1>5 DEF Converted, ValuesOf
<1> QED
  BY <1>2, <1>3, <1>4, <1>5

\* The option that waits is given its text: what has been set and which values
\* there are is now right up to the element at hand.
Applies ==
  /\ isSet' = SetBefore(at)
  /\ called' = {}
  /\ \A n \in DOMAIN registered : LastBefore(n, value'[n], at)
  /\ value' \in Seq(AllValues)
  /\ DOMAIN value' = DOMAIN registered
  /\ \A n \in DOMAIN registered : value'[n] \in ValuesOf(registered[n])

LEMMA ValueApplied ==
  ASSUME TypeOK, RegisteredInv, Parsing, ParsingInv, expecting, ~Aborts,
         SetValueFromStr(current, TextOf(at - 1))
  PROVE  Applies
<1> DEFINE k == at - 1
           text == TextOf(k)
<1>1. /\ at \in Nat /\ k \in Nat /\ k \in DOMAIN argv
      /\ OptionAt(k) /\ Meant(k) = current /\ k \notin Unknown
      /\ Edge = k
  BY LineType DEF TypeOK, ParsingInv, WaitingInv, Edge
<1>2. text \in Texts
  BY <1>1, LineType
<1>3. /\ current \in DOMAIN registered /\ DOMAIN registered = 1 .. Len(registered)
      /\ DOMAIN value = DOMAIN registered /\ value \in Seq(AllValues)
  BY DEF TypeOK, RegisteredInv, ParsingInv, WaitingInv, None
<1>4. registered[current].type # "callback"
  BY DEF Aborts
<1>5. /\ value' = IF Converts(current, text) THEN [value EXCEPT ![current] = Converted(current, text)]
                                             ELSE value
      /\ isSet' = IF Accepts(current, text) THEN isSet \cup {current} ELSE isSet
      /\ called' = {}
  BY <1>4 DEF SetValueFromStr, ParsingInv
<1>6. \A n : /\ k \in AcceptedAt(n) <=> n = current /\ Accepts(current, text)
             /\ k \in NumericAt(n) <=> n = current /\ Converts(current, text)
  BY <1>1 DEF AcceptedAt, NumericAt, Numeric, Converts
<1>7. \A n : AcceptedAt(n) \subseteq Nat /\ NumericAt(n) \subseteq Nat
  BY LineType DEF AcceptedAt, NumericAt
<1>8. \A j \in Nat : j < at <=> j < k \/ j = k
  BY <1>1
<1> HIDE DEF k, text
<1>9. isSet' = SetBefore(at)
  <2>1. isSet = SetBefore(k)
    BY <1>1 DEF ParsingInv
  <2>2. \A n : (\E j \in AcceptedAt(n) : j < at) <=>
                  (\E j \in AcceptedAt(n) : j < k) \/ k \in AcceptedAt(n)
    BY <1>7, <1>8
  <2>3. \A n : (\E j \in AcceptedAt(n) : j < at) <=>
                  (\E j \in AcceptedAt(n) : j < k) \/ (n = current /\ Accepts(current, text))
    BY <1>6, <2>2
  <2> QED
    BY <1>3, <1>5, <2>1, <2>3 DEF SetBefore
<1>10. ASSUME NEW n \in DOMAIN registered
       PROVE  LastBefore(n, value'[n], at)
  <2>1. LastBefore(n, value[n], k)
    BY <1>1 DEF ParsingInv
  <2>2. CASE n = current /\ Converts(current, text)
    <3>1. value'[n] = Converted(n, text)
      BY <1>3, <1>5, <2>2
    <3>2. k \in NumericAt(n) /\ k < at /\ \A j \in NumericAt(n) : j < at => j <= k
      BY <1>1, <1>6, <1>7, <1>8, <2>2
    <3> QED
      BY <3>1, <3>2 DEF LastBefore, text
  <2>3. CASE ~(n = current /\ Converts(current, text))
    <3>1. value'[n] = value[n]
      BY <1>3, <1>5, <2>3
    <3>2. \A j \in NumericAt(n) : j < at <=> j < k
      BY <1>6, <1>7, <1>8, <2>3
    <3> QED
      BY <2>1, <3>1, <3>2 DEF LastBefore
  <2> QED
    BY <2>2, <2>3
<1>11. /\ value' \in Seq(AllValues)
       /\ DOMAIN value' = DOMAIN registered
       /\ \A n \in DOMAIN registered : value'[n] \in ValuesOf(registered[n])
  <2>1. Converted(current, text) \in ValuesOf(registered[current])
    BY <1>2, <1>3, <1>4, ConvertedType
  <2>2. registered[current] \in Arguments
    BY <1>3 DEF RegisteredInv
  <2>3. Converted(current, text) \in AllValues
    BY <2>1, <2>2 DEF AllValues
  <2>4. value' \in Seq(AllValues)
    <3>1. DOMAIN value = 1 .. Len(value)
      BY <1>3
    <3> QED
      BY <1>3, <1>5, <2>3, <3>1, ExceptSeq
  <2>5. DOMAIN value' = DOMAIN registered
    BY <1>3, <1>5
  <2>6. ASSUME NEW n \in DOMAIN registered
        PROVE  value'[n] \in ValuesOf(registered[n])
    <3>1. value[n] \in ValuesOf(registered[n])
      BY DEF TypeOK
    <3>2. value'[n] = IF n = current /\ Converts(current, text) THEN Converted(current, text)
                                                                ELSE value[n]
      BY <1>3, <1>5
    <3> QED
      BY <2>1, <3>1, <3>2
  <2> QED
    BY <2>4, <2>5, <2>6
<1> QED
  BY <1>5, <1>9, <1>10, <1>11 DEF Applies

\* The same for an option that is followed by no text, if one waits.
LEMMA PendingApplied ==
  ASSUME TypeOK, RegisteredInv, Parsing, ParsingInv, ~Aborts, SetPending,
         expecting => TextOf(at - 1) = TrueText
  PROVE  Applies
<1>1. CASE expecting
  BY <1>1, ValueApplied DEF SetPending
<1>2. CASE ~expecting
  BY <1>2 DEF SetPending, valueVars, Applies, ParsingInv, Edge, TypeOK, RegisteredInv
<1> QED
  BY <1>1, <1>2 DEF TypeOK

-----------------------------------------------------------------------------
(* The steps                                                               *)

LEMMA InitIInv == Init => IInv
<1> SUFFICES ASSUME Init PROVE IInv
  OBVIOUS
<1>1. candidates \in Seq(Arguments) /\ Len(candidates) \in Nat
  BY ArgParserAssumption DEF Init
<1>2. /\ registered = <<>> /\ argv = <<>> /\ value = <<>> /\ params = <<>>
      /\ at = 1 /\ expecting = FALSE /\ current = 0 /\ isSet = {} /\ called = {}
      /\ outcome = "adding"
  BY DEF Init, None
<1>3. TypeOK
  <2>1. registered = SubSeq(candidates, 1, 0)
    BY <1>2, SubSeqEmpty
  <2>2. \E n \in 0 .. Len(candidates) : registered = SubSeq(candidates, 1, n)
    BY <1>1, <2>1
  <2>3. params \in Seq(Texts) /\ at \in 1 .. Len(argv) + 1 /\ current \in 0 .. Len(registered)
    BY <1>2
  <2>4. /\ candidates \in CandidateLists
        /\ DOMAIN argv = {} /\ DOMAIN registered = {} /\ DOMAIN value = {}
    BY <1>2 DEF Init
  <2> QED
    BY <1>2, <2>2, <2>3, <2>4 DEF TypeOK
<1>4. RegisteredInv
  BY <1>2 DEF RegisteredInv, Clash, Init
<1>5. AddingInv /\ ParsingInv /\ OutcomeInv /\ ValuesInv
  BY <1>2 DEF AddingInv, ParsingInv, OutcomeInv, ValuesInv, Parsing
<1> QED
  BY <1>3, <1>4, <1>5 DEF IInv

LEMMA AddArgumentIInv == IInv /\ AddArgument => IInv'
<1> SUFFICES ASSUME IInv, AddArgument PROVE IInv'
  OBVIOUS
<1> USE DEF IInv
<1> DEFINE m == Len(registered) + 1
           argument == candidates[m]
<1>1. /\ outcome = "adding" /\ Len(registered) < Len(candidates)
      /\ IF Duplicate(argument)
           THEN outcome' = "refused" /\ registered' = registered /\ value' = value
           ELSE /\ registered' = Append(registered, argument)
                /\ value' = Append(value, argument.default)
                /\ outcome' = outcome
      /\ UNCHANGED <<candidates, argv, at, current, expecting, isSet, called, params>>
  BY DEF AddArgument, Adding
<1>2. /\ candidates \in Seq(Arguments) /\ Len(candidates) \in Nat
      /\ Len(registered) \in Nat /\ DOMAIN registered = 1 .. Len(registered)
      /\ DOMAIN candidates = 1 .. Len(candidates)
      /\ m \in DOMAIN candidates /\ argument \in Arguments
      /\ Len(value) = Len(registered) /\ DOMAIN value = 1 .. Len(value)
  <2>1. candidates \in Seq(Arguments) /\ registered \in Seq(Arguments) /\ value \in Seq(AllValues)
    BY ArgParserAssumption DEF RegisteredInv
  <2>2. Len(registered) < Len(candidates)
    BY <1>1
  <2>3. DOMAIN value = DOMAIN registered
    BY DEF TypeOK
  <2>4. Len(value) = Len(registered)
    BY <2>1, <2>3
  <2> QED
    BY <2>1, <2>2, <2>4
<1>3. \A n \in DOMAIN registered : registered[n] = candidates[n] /\ n \in DOMAIN candidates /\ n # m
  BY <1>1, <1>2 DEF RegisteredInv
<1>4. (OutcomeInv /\ ValuesInv /\ ParsingInv)'
  BY <1>1 DEF OutcomeInv, ValuesInv, ParsingInv, Parsing
<1>5. CASE Duplicate(argument)
  <2>1. PICK n \in DOMAIN registered :
          \/ argument.short # "" /\ argument.short = registered[n].short
          \/ argument.long = registered[n].long
    BY <1>5 DEF Duplicate
  <2>2. Clash(candidates)
    <3>1. registered[n] = candidates[n] /\ n \in DOMAIN candidates /\ m \in DOMAIN candidates /\ m # n
      BY <1>2, <1>3
    <3>2. \/ candidates[m].long = candidates[n].long
          \/ candidates[m].short = candidates[n].short /\ candidates[n].short # ""
      BY <2>1, <3>1
    <3> HIDE DEF m
    <3> QED
      BY <3>1, <3>2 DEF Clash
  <2>3. RegisteredInv'
    <3>1. ~Clash(registered) /\ registered' = registered /\ candidates' = candidates
      BY <1>1, <1>5 DEF RegisteredInv
    <3>2. ~Clash(registered')
      BY <3>1
    <3>3. Clash(candidates')
      BY <2>2, <3>1
    <3>4. \A i \in DOMAIN registered' : registered'[i] = candidates'[i]
      BY <1>3, <3>1
    <3> QED
      BY <1>1, <1>5, <3>1, <3>2, <3>3, <3>4 DEF RegisteredInv
  <2>4. TypeOK'
    BY <1>1, <1>5 DEF TypeOK
  <2>5. AddingInv'
    BY <1>1, <1>5 DEF AddingInv, Adding
  <2> QED
    BY <1>4, <2>3, <2>4, <2>5
<1>6. CASE ~Duplicate(argument)
  <2>1. /\ registered' = Append(registered, argument) /\ value' = Append(value, argument.default)
        /\ outcome' = "adding"
    BY <1>1, <1>6
  <2>2. argument.default \in ValuesOf(argument) /\ argument.default \in AllValues
    BY <1>2 DEF ValuesOf, AllValues
  <2> HIDE DEF argument
  <2>3. /\ registered' \in Seq(Arguments) /\ value' \in Seq(AllValues)
        /\ Len(registered') = m /\ DOMAIN registered' = 1 .. m /\ DOMAIN value' = 1 .. m
    BY <1>2, <2>1, <2>2 DEF RegisteredInv
  <2>4. /\ \A n \in DOMAIN registered : registered'[n] = registered[n] /\ value'[n] = value[n]
        /\ registered'[m] = argument /\ value'[m] = argument.default
    BY <1>2, <2>1 DEF RegisteredInv
  <2>5. \A n \in 1 .. m : n \in DOMAIN registered \/ n = m
    BY <1>2
  <2>6. \A n \in DOMAIN registered' : registered'[n] = candidates'[n]
    BY <1>1, <1>3, <2>3, <2>4, <2>5 DEF argument
  <2>7. ~Clash(registered')
    <3> SUFFICES ASSUME NEW i \in 1 .. m, NEW j \in 1 .. m, i # j,
                        \/ registered'[i].long = registered'[j].long
                        \/ registered'[i].short = registered'[j].short /\ registered'[j].short # ""
                 PROVE  FALSE
      BY <2>3 DEF Clash
    <3>0. \A n \in DOMAIN registered :
            /\ argument.long # registered[n].long
            /\ ~(argument.short # "" /\ argument.short = registered[n].short)
      BY <1>6 DEF Duplicate
    <3>1. CASE i = m
      <4>1. j \in DOMAIN registered
        BY <2>5, <3>1
      <4> QED
        BY <2>4, <3>0, <3>1, <4>1
    <3>2. CASE j = m
      <4>1. i \in DOMAIN registered
        BY <2>5, <3>2
      <4> QED
        BY <2>4, <3>0, <3>2, <4>1
    <3>3. CASE i # m /\ j # m
      <4>1. i \in DOMAIN registered /\ j \in DOMAIN registered
        BY <2>5, <3>3
      <4>2. registered'[i] = registered[i] /\ registered'[j] = registered[j]
        BY <2>4, <4>1
      <4>3. Clash(registered)
        BY <4>1, <4>2 DEF Clash
      <4> QED
        BY <4>3 DEF RegisteredInv
    <3> QED
      BY <3>1, <3>2, <3>3
  <2>8. RegisteredInv'
    BY <1>1, <2>1, <2>3, <2>6, <2>7 DEF RegisteredInv, Clash
  <2>9. TypeOK'
    <3>1. registered' = SubSeq(candidates', 1, m)
      <4>1. /\ SubSeq(candidates, 1, m) \in Seq(Arguments) /\ Len(SubSeq(candidates, 1, m)) = m
            /\ \A i \in 1 .. m : SubSeq(candidates, 1, m)[i] = candidates[i]
        BY <1>2
      <4> QED
        BY <1>1, <2>3, <2>6, <4>1, SeqEqual
    <3>2. m \in 0 .. Len(candidates')
      BY <1>1, <1>2
    <3>3. \A n \in DOMAIN registered' : value'[n] \in ValuesOf(registered'[n])
      BY <2>2, <2>3, <2>4, <2>5 DEF TypeOK
    <3>4. current' \in 0 .. Len(registered') /\ isSet' \subseteq DOMAIN registered'
          /\ called' \subseteq DOMAIN registered'
      BY <1>1, <1>2, <2>3 DEF TypeOK
    <3>5. \E n \in 0 .. Len(candidates') : registered' = SubSeq(candidates', 1, n)
      BY <3>1, <3>2
    <3>6. DOMAIN value' = DOMAIN registered'
      BY <2>3
    <3> HIDE DEF m
    <3> QED
      BY <1>1, <2>1, <3>3, <3>4, <3>5, <3>6 DEF TypeOK
  <2>10. AddingInv'
    <3>1. \A n \in DOMAIN registered' : value'[n] = registered'[n].default
      BY <1>1, <2>3, <2>4, <2>5 DEF AddingInv, Adding
    <3> QED
      BY <1>1, <3>1 DEF AddingInv, Adding
  <2> QED
    BY <1>4, <2>8, <2>9, <2>10
<1> QED
  BY <1>5, <1>6

LEMMA StartParseIInv == IInv /\ StartParse => IInv'
<1> SUFFICES ASSUME IInv, StartParse PROVE IInv'
  OBVIOUS
<1> USE DEF IInv
<1>1. /\ outcome = "adding" /\ outcome' = "parsing"
      /\ UNCHANGED <<candidates, registered, at, current, expecting, value, isSet, called, params>>
  BY DEF StartParse, Adding, parseVars, valueVars
<1>2. /\ at = 1 /\ ~expecting /\ isSet = {} /\ called = {} /\ params = <<>>
      /\ \A n \in DOMAIN registered : value[n] = registered[n].default
  BY <1>1 DEF AddingInv, Adding
<1>3. argv' \in Seq(Elements)
  <2>1. PICK n \in 0 .. MaxElements : argv' \in [1 .. n -> Elements]
    BY DEF StartParse
  <2>2. n \in Nat
    BY ArgParserAssumption
  <2> QED
    BY <2>1, <2>2
<1>4. RegisteredInv'
  BY <1>1, <1>3 DEF RegisteredInv, Clash
<1>5. TypeOK'
  <2>1. \A k \in DOMAIN argv' : IF argv'[k].form = "text" THEN argv'[k].name \in Texts
                                                          ELSE argv'[k] \in Options
    BY <1>3, ElementType
  <2>2. at' \in 1 .. Len(argv') + 1
    BY <1>1, <1>2, <1>3
  <2> QED
    BY <1>1, <2>1, <2>2 DEF TypeOK
<1>6. ParsingInv'
  <2>1. DOMAIN argv' \subseteq {k \in Nat : k >= 1}
    BY <1>3
  <2>2. /\ AcceptedAt(0)' \subseteq DOMAIN argv' /\ Loose' \subseteq DOMAIN argv'
        /\ \A n : AcceptedAt(n)' \subseteq DOMAIN argv' /\ NumericAt(n)' \subseteq DOMAIN argv'
    BY DEF AcceptedAt, NumericAt, Loose
  <2>3. \A k \in DOMAIN argv' : ~(k < 1)
    BY <2>1
  <2>4. SetBefore(1)' = {}
    BY <2>2, <2>3 DEF SetBefore
  <2>5. LooseBefore(1)' = {}
    BY <2>2, <2>3 DEF LooseBefore
  <2>6. \A n \in DOMAIN registered' : LastBefore(n, value[n], 1)'
    BY <1>1, <1>2, <2>2, <2>3 DEF LastBefore
  <2>7. Len(params') = Cardinality(LooseBefore(1)')
    BY <1>1, <1>2, <2>5, FS_EmptySet
  <2>8. at' = 1 /\ ~expecting' /\ Edge' = 1
    BY <1>1, <1>2 DEF Edge
  <2>9. WaitingInv'
    BY <2>8 DEF WaitingInv
  <2> QED
    BY <1>1, <1>2, <2>3, <2>4, <2>6, <2>7, <2>8, <2>9 DEF ParsingInv
<1>7. (AddingInv /\ OutcomeInv /\ ValuesInv)'
  BY <1>1 DEF AddingInv, Adding, OutcomeInv, ValuesInv
<1> QED
  BY <1>4, <1>5, <1>6, <1>7

\* What the steps of parse() leave alone.
LEMMA StepTypes ==
  ASSUME IInv, Parsing, UNCHANGED inputVars,
         outcome' \in {"parsing", "parsed", "thrown"},
         at' \in 1 .. Len(argv) + 1, current' \in 0 .. Len(registered), expecting' \in BOOLEAN,
         params' \in Seq(Texts),
         \/ Applies
         \/ value' = value /\ isSet' = isSet /\ called' \subseteq DOMAIN registered
  PROVE  TypeOK' /\ RegisteredInv' /\ AddingInv'
<1>1. /\ candidates' = candidates /\ registered' = registered /\ argv' = argv
      /\ TypeOK /\ RegisteredInv
  BY DEF inputVars, IInv
<1>2. /\ value' \in Seq(AllValues) /\ DOMAIN value' = DOMAIN registered
      /\ \A n \in DOMAIN registered : value'[n] \in ValuesOf(registered[n])
      /\ isSet' \subseteq DOMAIN registered /\ called' \subseteq DOMAIN registered
  BY <1>1 DEF Applies, SetBefore, TypeOK, RegisteredInv
<1>3. TypeOK'
  BY <1>1, <1>2 DEF TypeOK
<1>4. ~Clash(registered')
  BY <1>1 DEF RegisteredInv
<1>5. RegisteredInv'
  BY <1>1, <1>2, <1>4 DEF RegisteredInv
<1> QED
  BY <1>3, <1>5 DEF AddingInv, Adding

\* What is known of the command line before an element is looked at.
LEMMA Before ==
  ASSUME IInv, Parsing
  PROVE  /\ at \in Nat /\ at >= 1 /\ at <= Len(argv) + 1 /\ Len(argv) \in Nat
         /\ DOMAIN argv = 1 .. Len(argv)
         /\ expecting \in BOOLEAN
         /\ expecting => /\ at - 1 \in DOMAIN argv /\ OptionAt(at - 1) /\ at - 1 \notin Unknown
                         /\ current = Meant(at - 1) /\ current \in DOMAIN registered
         /\ ~expecting /\ at > 1 => ~OptionAt(at - 1)
         /\ \A k \in DOMAIN argv : k < at => k \notin Unknown
         /\ Aborts => at - 1 \in Callbacks
         /\ ~Aborts => \A k \in DOMAIN argv : k < at => k \notin Callbacks
         /\ Unknown \subseteq DOMAIN argv /\ Callbacks \subseteq DOMAIN argv
         /\ Loose \subseteq DOMAIN argv
<1>1. /\ at \in Nat /\ at >= 1 /\ at <= Len(argv) + 1 /\ Len(argv) \in Nat
      /\ DOMAIN argv = 1 .. Len(argv) /\ expecting \in BOOLEAN
  BY LineType DEF IInv, TypeOK
<1>2. /\ Unknown \subseteq DOMAIN argv /\ Callbacks \subseteq DOMAIN argv
      /\ Loose \subseteq DOMAIN argv
  BY DEF Unknown, Callbacks, Loose
<1>3. \A k \in DOMAIN argv : k < at => k \notin Unknown
  BY DEF IInv, ParsingInv
<1>4. expecting => /\ at - 1 \in DOMAIN argv /\ OptionAt(at - 1) /\ at - 1 \notin Unknown
                   /\ current = Meant(at - 1) /\ current \in DOMAIN registered
  <2> SUFFICES ASSUME expecting
               PROVE  /\ at - 1 \in DOMAIN argv /\ OptionAt(at - 1) /\ at - 1 \notin Unknown
                      /\ current = Meant(at - 1) /\ current \in DOMAIN registered
    OBVIOUS
  <2>1. at > 1 /\ OptionAt(at - 1) /\ current = Meant(at - 1) /\ current # None
    BY DEF IInv, ParsingInv, WaitingInv
  <2>2. at - 1 \in DOMAIN argv /\ at - 1 < at
    BY <1>1, <2>1
  <2>3. current \in DOMAIN registered
    BY <2>1 DEF IInv, TypeOK, RegisteredInv, None
  <2> QED
    BY <1>3, <2>1, <2>2, <2>3
<1>5. ~expecting /\ at > 1 => ~OptionAt(at - 1)
  BY DEF IInv, ParsingInv, WaitingInv
<1>6. Aborts => at - 1 \in Callbacks
  BY <1>4 DEF Aborts, Callbacks
<1>7. ASSUME ~Aborts, NEW k \in DOMAIN argv, k < at
      PROVE  k \notin Callbacks
  <2>1. CASE k < Edge
    BY <2>1 DEF IInv, ParsingInv
  <2>2. CASE ~(k < Edge)
    <3>1. expecting /\ k = at - 1
      BY <1>1, <1>7, <2>2 DEF Edge
    <3> QED
      BY <1>4, <1>7, <3>1 DEF Aborts, Callbacks
  <2> QED
    BY <2>1, <2>2
<1> QED
  BY <1>1, <1>2, <1>3, <1>4, <1>5, <1>6, <1>7

\* A callback ends parsing, before any option that is unknown.
LEMMA AbortedIInv ==
  ASSUME IInv, Parsing, Aborts, NEW text, SetValueFromStr(current, text),
         UNCHANGED <<inputVars, at, current, expecting, params>>, outcome' = "parsed"
  PROVE  IInv'
<1>1. current \in DOMAIN registered /\ registered[current].type = "callback"
  BY Before DEF Aborts
<1>2. called' = called \cup {current} /\ value' = value /\ isSet' = isSet
  BY <1>1 DEF SetValueFromStr, Call
<1>3. called' \subseteq DOMAIN registered
  BY <1>1, <1>2 DEF IInv, TypeOK
<1>4. /\ at' \in 1 .. Len(argv) + 1 /\ current' \in 0 .. Len(registered) /\ expecting' \in BOOLEAN
      /\ params' \in Seq(Texts)
  BY DEF IInv, TypeOK
<1>5. TypeOK' /\ RegisteredInv' /\ AddingInv'
  BY <1>2, <1>3, <1>4, StepTypes
<1>6. at - 1 \in Callbacks /\ \A j \in Unknown : at - 1 < j
  <2>1. at - 1 \in Callbacks
    BY Before
  <2>2. ASSUME NEW j \in Unknown
        PROVE  at - 1 < j
    <3>1. j \in Nat /\ at \in Nat /\ ~(j < at)
      BY Before
    <3> QED
      BY <3>1
  <2> QED
    BY <2>1, <2>2
<1>7. at - 1 \in Callbacks' /\ \A j \in Unknown' : at - 1 < j
  BY <1>6, SameInput
<1>8. OutcomeInv' /\ ValuesInv'
  BY <1>7 DEF OutcomeInv, ValuesInv
<1>9. ParsingInv'
  BY DEF ParsingInv, Parsing
<1> QED
  BY <1>5, <1>8, <1>9 DEF IInv

LEMMA OptionAbortsIInv == IInv /\ OptionAborts => IInv'
<1> SUFFICES ASSUME IInv, OptionAborts PROVE IInv'
  OBVIOUS
<1>1. Parsing /\ Aborts /\ SetValueFromStr(current, TrueText)
  BY DEF OptionAborts, AtOption, Aborts, SetPending
<1> QED
  BY <1>1, AbortedIInv DEF OptionAborts

LEMMA OneMore ==
  ASSUME NEW i \in Nat, NEW S, \A k \in S : k \in Nat
  PROVE  /\ i \notin S => {k \in S : k < i + 1} = {k \in S : k < i}
         /\ i \in S => {k \in S : k < i + 1} = {k \in S : k < i} \cup {i}
         /\ i \notin {k \in S : k < i}
<1>1. i \notin S => {k \in S : k < i + 1} = {k \in S : k < i}
  OBVIOUS
<1>2. ASSUME i \in S
      PROVE  {k \in S : k < i + 1} = {k \in S : k < i} \cup {i}
  <2>1. \A k \in S : k < i + 1 <=> k < i \/ k = i
    OBVIOUS
  <2> QED
    BY <1>2, <2>1
<1>3. i \notin {k \in S : k < i}
  OBVIOUS
<1> QED
  BY <1>1, <1>2, <1>3

\* The loose texts before an element and up to it.
LEMMA LooseStep ==
  ASSUME IInv, Parsing
  PROVE  /\ at \notin Loose => LooseBefore(at + 1) = LooseBefore(at)
         /\ at \in Loose => Cardinality(LooseBefore(at + 1)) = Cardinality(LooseBefore(at)) + 1
<1>1. at \in Nat /\ Len(argv) \in Nat /\ Loose \subseteq 1 .. Len(argv)
  BY Before
<1>2. \A k \in Loose : k \in Nat
  BY <1>1
<1>3. /\ at \notin Loose => LooseBefore(at + 1) = LooseBefore(at)
      /\ at \in Loose => LooseBefore(at + 1) = LooseBefore(at) \cup {at}
      /\ at \notin LooseBefore(at)
  BY <1>1, <1>2, OneMore DEF LooseBefore
<1>4. LooseBefore(at) \in SUBSET Loose /\ Loose \in SUBSET (1 .. Len(argv))
  BY <1>1 DEF LooseBefore
<1>5. IsFiniteSet(Loose)
  <2>1. IsFiniteSet(1 .. Len(argv))
    BY <1>1, FS_Interval
  <2> QED
    BY <1>4, <2>1, FS_Subset
<1>6. IsFiniteSet(LooseBefore(at))
  BY <1>4, <1>5, FS_Subset
<1> QED
  BY <1>3, <1>6, FS_AddElement

\* One more element is dealt with, and no callback was called.
LEMMA Advances ==
  ASSUME IInv, Parsing, ~Aborts, at <= Len(argv), Applies, UNCHANGED inputVars,
         at' = at + 1, outcome' = "parsing",
         expecting' = OptionAt(at),
         IF OptionAt(at) THEN /\ at \notin Unknown /\ current' = Meant(at) /\ current' # None
                              /\ current' \in 0 .. Len(registered)
                         ELSE current' = current,
         params' \in Seq(Texts),
         Len(params') = IF at \in Loose THEN Len(params) + 1 ELSE Len(params)
  PROVE  IInv'
<1>1. /\ at \in Nat /\ at >= 1 /\ Len(argv) \in Nat /\ DOMAIN argv = 1 .. Len(argv)
      /\ \A k \in DOMAIN argv : k < at => k \notin Unknown /\ k \notin Callbacks
  BY Before
<1>2. /\ registered' = registered /\ argv' = argv /\ at + 1 \in 1 .. Len(argv) + 1
      /\ \A k \in DOMAIN argv : k < at + 1 <=> k < at \/ k = at
  BY <1>1 DEF inputVars
<1>3. TypeOK' /\ RegisteredInv' /\ AddingInv'
  <2>1. current' \in 0 .. Len(registered) /\ expecting' \in BOOLEAN
    BY DEF IInv, TypeOK, OptionAt
  <2> QED
    BY <1>2, <2>1, StepTypes
<1>4. WaitingInv'
  <2>1. at' > 1 /\ at' - 1 = at
    BY <1>1
  <2>2. \A k : OptionAt(k)' = OptionAt(k) /\ Meant(k)' = Meant(k)
    BY SameInput
  <2> QED
    BY <2>1, <2>2 DEF WaitingInv
<1>5. \A k \in DOMAIN argv' : /\ k < at' => k \notin Unknown'
                              /\ k < Edge' => k \notin Callbacks'
  <2> SUFFICES ASSUME NEW k \in DOMAIN argv
               PROVE  /\ k < at + 1 => k \notin Unknown
                      /\ k < Edge' => k \notin Callbacks
    BY <1>2, SameInput
  <2>1. k < at + 1 => k \notin Unknown
    BY <1>1, <1>2 DEF Unknown
  <2>2. CASE OptionAt(at)
    <3>1. Edge' = at
      BY <1>1, <2>2 DEF Edge
    <3> QED
      BY <1>1, <2>1, <3>1
  <2>3. CASE ~OptionAt(at)
    <3>1. Edge' = at + 1 /\ at \notin Callbacks
      BY <2>3 DEF Edge, Callbacks
    <3> QED
      BY <1>1, <1>2, <2>1, <3>1
  <2> QED
    BY <2>1, <2>2, <2>3
<1>6. \A n : /\ AcceptedAt(n) \subseteq DOMAIN argv /\ NumericAt(n) \subseteq DOMAIN argv
             /\ \A k \in AcceptedAt(n) \cup NumericAt(n) : OptionAt(k)
  BY DEF AcceptedAt, NumericAt
<1>7. \A n, k : k \in AcceptedAt(n) \cup NumericAt(n) => (k < Edge' <=> k < at)
  <2>1. CASE OptionAt(at)
    BY <1>1, <2>1 DEF Edge
  <2>2. CASE ~OptionAt(at)
    <3>1. Edge' = at + 1
      BY <2>2 DEF Edge
    <3>2. \A n, k : k \in AcceptedAt(n) \cup NumericAt(n) => k # at /\ k \in DOMAIN argv
      BY <1>6, <2>2
    <3> QED
      BY <1>2, <3>1, <3>2
  <2> QED
    BY <2>1, <2>2
<1>8. isSet' = SetBefore(Edge)'
  <2>1. SetBefore(Edge)' = {n \in DOMAIN registered : \E k \in AcceptedAt(n) : k < Edge'}
    <3>1. \A n : AcceptedAt(n)' = AcceptedAt(n)
      BY SameInput
    <3> QED
      BY <1>2, <3>1 DEF SetBefore
  <2> QED
    BY <1>7, <2>1 DEF Applies, SetBefore
<1>9. ASSUME NEW n \in DOMAIN registered
      PROVE  LastBefore(n, value[n], Edge)'
  <2>1. LastBefore(n, value'[n], at)
    BY <1>9 DEF Applies
  <2>2. /\ NumericAt(n)' = NumericAt(n)
        /\ \A k : TextOf(k)' = TextOf(k) /\ Converted(n, TextOf(k))' = Converted(n, TextOf(k))
    BY <1>2, SameInput DEF Converted
  <2>3. \A k \in NumericAt(n) : k < Edge' <=> k < at
    BY <1>7
  <2> QED
    BY <1>2, <2>1, <2>2, <2>3 DEF LastBefore
<1>10. Len(params') = Cardinality(LooseBefore(at)')
  <2>1. Len(params) = Cardinality(LooseBefore(at))
    BY DEF IInv, ParsingInv
  <2>2. LooseBefore(at)' = LooseBefore(at + 1)
    <3>1. Loose' = Loose
      BY SameInput
    <3> QED
      BY <3>1 DEF LooseBefore
  <2> QED
    BY <2>1, <2>2, LooseStep
<1>11. ParsingInv'
  BY <1>2, <1>4, <1>5, <1>8, <1>9, <1>10 DEF ParsingInv, Applies
<1>12. OutcomeInv' /\ ValuesInv'
  BY DEF OutcomeInv, ValuesInv
<1> QED
  BY <1>3, <1>11, <1>12 DEF IInv

LEMMA OptionIInv == IInv /\ Option => IInv'
<1> SUFFICES ASSUME IInv, Option PROVE IInv'
  OBVIOUS
<1>1. /\ Parsing /\ ~Aborts /\ at <= Len(argv) /\ OptionAt(at) /\ SetPending
      /\ UNCHANGED inputVars /\ params' = params
      /\ current' = ArgByOpt(argv[at])
      /\ IF current' = None
           THEN outcome' = "thrown" /\ expecting' = FALSE /\ at' = at
           ELSE at' = at + 1 /\ expecting' = TRUE /\ outcome' = outcome
  BY DEF Option, AtOption, OptionAt
<1>2. /\ at \in Nat /\ at >= 1 /\ at \in DOMAIN argv /\ DOMAIN argv = 1 .. Len(argv)
      /\ Len(argv) \in Nat
  BY <1>1, Before
<1>3. Applies
  <2>1. expecting => TextOf(at - 1) = TrueText
    BY <1>1, <1>2 DEF TextOf
  <2> QED
    BY <1>1, <2>1, PendingApplied DEF IInv
<1>4. /\ current' \in 0 .. Len(registered)
      /\ current' = None <=> at \in Unknown
      /\ current' # None => current' = Meant(at)
  BY <1>1, <1>2, NamedFacts, MeantIsArg DEF IInv, Unknown
<1>5. params' \in Seq(Texts) /\ at \notin Loose
  BY <1>1 DEF IInv, TypeOK, Loose
<1>6. CASE current' # None
  BY <1>1, <1>3, <1>4, <1>5, <1>6, Advances DEF Parsing
<1>7. CASE current' = None
  <2>1. TypeOK' /\ RegisteredInv' /\ AddingInv'
    <3>1. at' = at /\ expecting' = FALSE /\ outcome' = "thrown"
      BY <1>1, <1>7
    <3>2. at \in 1 .. Len(argv) + 1
      BY DEF IInv, TypeOK
    <3>3. at' \in 1 .. Len(argv) + 1 /\ expecting' \in BOOLEAN
          /\ outcome' \in {"parsing", "parsed", "thrown"}
      BY <3>1, <3>2
    <3>4. current' \in 0 .. Len(registered) /\ params' \in Seq(Texts) /\ Parsing
      BY <1>1, <1>4, <1>5
    <3> QED
      BY <1>1, <1>3, <3>3, <3>4, StepTypes
  <2>2. at \in Unknown' /\ \A k \in Callbacks' : ~(k < at)
    <3>1. at \in Unknown /\ \A k \in Callbacks : ~(k < at)
      BY <1>1, <1>4, <1>7, Before
    <3> QED
      BY <1>1, <3>1, SameInput
  <2>3. OutcomeInv'
    BY <1>1, <1>7, <2>2 DEF OutcomeInv
  <2>4. ParsingInv' /\ ValuesInv'
    BY <1>1, <1>7 DEF ParsingInv, Parsing, ValuesInv
  <2> QED
    BY <2>1, <2>3, <2>4 DEF IInv
<1> QED
  BY <1>6, <1>7

LEMMA ValueIInv == IInv /\ Value => IInv'
<1> SUFFICES ASSUME IInv, Value PROVE IInv'
  OBVIOUS
<1>1. /\ Parsing /\ expecting /\ at <= Len(argv) /\ ~OptionAt(at)
      /\ SetValueFromStr(current, argv[at].name)
      /\ UNCHANGED inputVars /\ params' = params /\ current' = current
      /\ IF Aborts THEN outcome' = "parsed" /\ UNCHANGED <<at, expecting>>
                   ELSE at' = at + 1 /\ expecting' = FALSE /\ outcome' = outcome
  BY DEF Value, AtText, OptionAt
<1>2. CASE Aborts
  BY <1>1, <1>2, AbortedIInv
<1>3. CASE ~Aborts
  <2>1. /\ at \in Nat /\ at - 1 \in DOMAIN argv /\ OptionAt(at - 1)
        /\ Len(argv) \in Nat
    BY <1>1, Before
  <2>2. TextOf(at - 1) = argv[at].name
    <3>1. at - 1 + 1 = at /\ at - 1 # Len(argv)
      BY <1>1, <2>1
    <3> QED
      BY <1>1, <3>1 DEF TextOf
  <2>3. Applies
    BY <1>1, <1>3, <2>2, ValueApplied DEF IInv
  <2>4. at \notin Loose
    BY <2>1, Before DEF Loose
  <2>5. params' \in Seq(Texts)
    BY <1>1 DEF IInv, TypeOK
  <2> QED
    BY <1>1, <1>3, <2>3, <2>4, <2>5, Advances DEF Parsing, OptionAt
<1> QED
  BY <1>2, <1>3

LEMMA ParameterIInv == IInv /\ Parameter => IInv'
<1> SUFFICES ASSUME IInv, Parameter PROVE IInv'
  OBVIOUS
<1>1. /\ Parsing /\ ~expecting /\ at <= Len(argv) /\ ~OptionAt(at)
      /\ params' = Append(params, argv[at].name) /\ at' = at + 1
      /\ UNCHANGED inputVars /\ UNCHANGED <<current, expecting, outcome>>
      /\ UNCHANGED valueVars
  BY DEF Parameter, AtText, OptionAt
<1>2. /\ at \in DOMAIN argv /\ at >= 1 /\ at \in Nat
      /\ at > 1 => ~OptionAt(at - 1)
  BY <1>1, Before
<1>3. at \in Loose
  <2>1. at = 1 \/ at > 1
    BY <1>2
  <2> QED
    BY <1>1, <1>2, <2>1 DEF Loose
<1>4. params' \in Seq(Texts) /\ Len(params') = Len(params) + 1
  <2>1. argv[at].name \in Texts
    BY <1>1, <1>2, LineType DEF IInv
  <2> QED
    BY <1>1, <2>1 DEF IInv, TypeOK
<1>5. ~Aborts
  BY <1>1 DEF Aborts
<1>6. Applies
  BY <1>1, <1>5, PendingApplied DEF SetPending, IInv
<1> QED
  BY <1>1, <1>3, <1>4, <1>5, <1>6, Advances DEF Parsing, IInv, TypeOK, OptionAt

\* A quotient and its remainder, as strtoul() and the conversion to unsigned do.
LEMMA Remainder ==
  ASSUME NEW i \in Nat
  PROVE  \E k \in 0 .. i : i = (i % UnsignedRange) + k * UnsignedRange
<1> DEFINE R == UnsignedRange
           k == i \div R
           r == i % R
<1>1. R \in Nat \ {0}
  BY ArgParserAssumption
<1>2. k \in Int /\ r \in 0 .. R - 1 /\ i = k * R + r
  BY <1>1
<1> HIDE DEF k, r, R
<1>3. k >= 0
  <2> SUFFICES ASSUME k <= -1 PROVE FALSE
    BY <1>2
  <2>1. (-1 - k) * R >= 0
    BY <1>1, <1>2
  <2>2. k * R <= -R
    BY <1>1, <1>2, <2>1
  <2> QED
    BY <1>1, <1>2, <2>2
<1>4. k <= i
  <2>1. k * (R - 1) >= 0
    BY <1>1, <1>2, <1>3
  <2>2. k * R >= k
    BY <1>1, <1>2, <2>1
  <2> QED
    BY <1>1, <1>2, <2>2
<1>5. k \in 0 .. i /\ i = r + k * R
  BY <1>1, <1>2, <1>3, <1>4
<1> QED
  BY <1>5 DEF r, R

\* At the end of the command line all that belongs to it has been dealt with.
LEMMA EndIInv == IInv /\ End => IInv'
<1> SUFFICES ASSUME IInv, End PROVE IInv'
  OBVIOUS
<1>1. /\ Parsing /\ at > Len(argv) /\ SetPending
      /\ outcome' = IF Aborts \/ Complete THEN "parsed" ELSE "thrown"
      /\ UNCHANGED <<inputVars, at, current, expecting, params>>
  BY DEF End
<1>2. CASE Aborts
  <2>1. SetValueFromStr(current, TrueText)
    BY <1>1, <1>2 DEF SetPending, Aborts
  <2> QED
    BY <1>1, <1>2, <2>1, AbortedIInv
<1>3. CASE ~Aborts
  <2>1. /\ at = Len(argv) + 1 /\ Len(argv) \in Nat /\ DOMAIN argv = 1 .. Len(argv)
        /\ \A k \in DOMAIN argv : k < at
        /\ registered' = registered
    BY <1>1, Before DEF inputVars
  <2>2. Unknown = {} /\ Callbacks = {} /\ LooseBefore(at) = Loose
    <3>1. Unknown \subseteq DOMAIN argv /\ Callbacks \subseteq DOMAIN argv /\ Loose \subseteq DOMAIN argv
      BY <1>1, Before
    <3>2. \A k \in DOMAIN argv : k \notin Unknown /\ k \notin Callbacks
      BY <1>1, <1>3, <2>1, Before
    <3> QED
      BY <2>1, <3>1, <3>2 DEF LooseBefore
  <2>3. Applies
    <3>1. expecting => TextOf(at - 1) = TrueText
      BY <2>1 DEF TextOf
    <3> QED
      BY <1>1, <1>3, <3>1, PendingApplied DEF IInv
  <2>4. \A n : AcceptedAt(n) \subseteq DOMAIN argv /\ NumericAt(n) \subseteq DOMAIN argv
    BY DEF AcceptedAt, NumericAt
  <2>5. TypeOK' /\ RegisteredInv' /\ AddingInv'
    <3>1. /\ at' \in 1 .. Len(argv) + 1 /\ current' \in 0 .. Len(registered)
          /\ expecting' \in BOOLEAN /\ params' \in Seq(Texts)
          /\ outcome' \in {"parsing", "parsed", "thrown"}
      BY <1>1 DEF IInv, TypeOK
    <3> QED
      BY <1>1, <2>3, <3>1, StepTypes
  <2>6. OutcomeInv'
    <3>1. Complete <=> \A n \in DOMAIN registered : registered[n].mandatory => AcceptedAt(n) # {}
      <4>1. \A n \in DOMAIN registered : n \in isSet' <=> AcceptedAt(n) # {}
        BY <2>1, <2>3, <2>4 DEF Applies, SetBefore
      <4> QED
        BY <4>1 DEF Complete
    <3>2. /\ Callbacks' = {} /\ Unknown' = {}
          /\ \A n : AcceptedAt(n)' = AcceptedAt(n)
      BY <1>1, <2>2, SameInput
    <3>3. outcome' = "parsed" <=> Complete
      BY <1>1, <1>3
    <3> QED
      BY <2>1, <3>1, <3>2, <3>3 DEF OutcomeInv
  <2>7. ASSUME NEW n \in DOMAIN registered
        PROVE  ValueMeant(n, value'[n])
    <3>1. LastBefore(n, value'[n], at)
      BY <2>3 DEF Applies
    <3>2. CASE NumericAt(n) = {}
      BY <3>1, <3>2 DEF LastBefore, ValueMeant
    <3>3. CASE NumericAt(n) # {}
      <4>1. PICK k \in NumericAt(n) :
              /\ value'[n] = Converted(n, TextOf(k))
              /\ \A j \in NumericAt(n) : j <= k
        BY <2>1, <2>4, <3>1, <3>3 DEF LastBefore
      <4>2. Max(NumericAt(n)) = k
        <5>1. \A j \in NumericAt(n) : j \in Nat
          BY <2>1, <2>4
        <5>2. \A j \in NumericAt(n) : (\A i \in NumericAt(n) : j >= i) => j = k
          BY <4>1, <5>1
        <5>3. \A i \in NumericAt(n) : k >= i
          BY <4>1, <5>1
        <5> QED
          BY <5>2, <5>3 DEF Max
      <4>3. TextOf(k) \in Texts
        BY <2>4, LineType DEF IInv
      <4>4. registered[n].type \in {"unsigned", "bool", "string"}
        <5>1. registered[n].type # "callback"
          BY <2>2 DEF NumericAt, Callbacks
        <5>2. registered[n].type \in Types
          BY ArgParserAssumption DEF IInv, RegisteredInv
        <5> QED
          BY <5>1, <5>2 DEF Types
      <4>5. CASE registered[n].type = "unsigned"
        <5>1. TextOf(k).number \in Nat /\ value'[n] = TextOf(k).number % UnsignedRange
          BY <4>1, <4>3, <4>5, TextType DEF Converted
        <5>2. \E i \in 0 .. TextOf(k).number : TextOf(k).number = value'[n] + i * UnsignedRange
          BY <5>1, Remainder
        <5> QED
          BY <3>3, <4>2, <4>5, <5>2 DEF ValueMeant
      <4>6. CASE registered[n].type = "bool"
        BY <3>3, <4>1, <4>2, <4>6 DEF Converted, ValueMeant
      <4>7. CASE registered[n].type = "string"
        BY <3>3, <4>1, <4>2, <4>7 DEF Converted, ValueMeant
      <4> QED
        BY <4>4, <4>5, <4>6, <4>7
    <3> QED
      BY <3>2, <3>3
  <2>8. ValuesInv'
    <3>1. UNCHANGED inputVars
      BY <1>1
    <3>2. /\ Loose' = Loose
          /\ \A n : NumericAt(n)' = NumericAt(n)
          /\ \A k : TextOf(k)' = TextOf(k)
      BY <3>1, SameInput
    <3>3. \A n : ValueMeant(n, value[n])' <=> ValueMeant(n, value'[n])
      BY <2>1, <3>2 DEF ValueMeant
    <3>4. Len(params') = Cardinality(Loose)
      BY <1>1, <2>2 DEF IInv, ParsingInv
    <3> QED
      BY <2>1, <2>7, <3>2, <3>3, <3>4 DEF ValuesInv
  <2>9. ParsingInv'
    BY <1>1 DEF ParsingInv, Parsing
  <2> QED
    BY <2>5, <2>6, <2>8, <2>9 DEF IInv
<1> QED
  BY <1>2, <1>3

LEMMA NextIInv == IInv /\ [Next]_vars => IInv'
<1> SUFFICES ASSUME IInv, [Next]_vars PROVE IInv'
  OBVIOUS
<1>1. CASE UNCHANGED vars
  <2>1. UNCHANGED inputVars /\ UNCHANGED <<at, current, expecting, value, isSet, called, params, outcome>>
    BY <1>1 DEF vars, parseVars, valueVars, inputVars
  <2>2. TypeOK' /\ AddingInv'
    BY <2>1 DEF inputVars, IInv, TypeOK, AddingInv, Adding
  <2>3. RegisteredInv'
    BY <2>1 DEF inputVars, IInv, RegisteredInv, Clash
  <2>4. ParsingInv'
    <3>1. \A n : LastBefore(n, value[n], Edge)' = LastBefore(n, value[n], Edge)
      BY <2>1, SameInput DEF inputVars, LastBefore, Converted, Edge
    <3>2. /\ Edge' = Edge /\ WaitingInv' = WaitingInv
          /\ SetBefore(Edge)' = SetBefore(Edge) /\ LooseBefore(at)' = LooseBefore(at)
      BY <2>1, SameInput DEF Edge, WaitingInv
    <3> QED
      BY <2>1, <3>1, <3>2, SameInput DEF inputVars, IInv, ParsingInv, Parsing
  <2>5. OutcomeInv'
    BY <2>1, SameInput DEF inputVars, IInv, OutcomeInv
  <2>6. ValuesInv'
    <3>1. \A n : ValueMeant(n, value[n])' <=> ValueMeant(n, value[n])
      BY <2>1, SameInput DEF inputVars, ValueMeant
    <3> QED
      BY <2>1, <3>1, SameInput DEF inputVars, IInv, ValuesInv
  <2> QED
    BY <2>2, <2>3, <2>4, <2>5, <2>6 DEF IInv
<1> QED
  BY <1>1, AddArgumentIInv, StartParseIInv, OptionAbortsIInv, OptionIInv, ValueIInv, ParameterIInv,
     EndIInv DEF Next

-----------------------------------------------------------------------------
(* What holds in every state                                               *)

\* The inductive invariant: what parse() has done up to an element is what the
\* command line up to there means.
THEOREM Invariance == Spec => []IInv
<1> QED
  BY InitIInv, NextIInv, PTL DEF Spec

\* The members of ArgParser keep to their types, and no argument ever has a
\* value of another type than its own.
THEOREM TypeCorrect == Spec => []TypeOK
<1>1. IInv => TypeOK
  BY DEF IInv
<1> QED
  BY <1>1, Invariance, PTL

LEMMA UnambiguousFollows == IInv => OptionsUnambiguous
<1> SUFFICES ASSUME IInv PROVE OptionsUnambiguous
  OBVIOUS
<1>1. ASSUME NEW option \in Options, ~(option.form = "short" /\ option.name = "")
      PROVE  ~(Cardinality(Named(option)) > 1)
  <2>1. option.form \in {"long", "short"}
    BY ArgParserAssumption
  <2>2. \A m, n \in Named(option) : m = n
    <3> SUFFICES ASSUME NEW m \in Named(option), NEW n \in Named(option), m # n PROVE FALSE
      OBVIOUS
    <3>1. /\ m \in DOMAIN registered /\ n \in DOMAIN registered
          /\ registered[m][option.form] = option.name
          /\ registered[n][option.form] = option.name
      BY DEF Named
    <3>2. ~Clash(registered)
      BY DEF IInv, RegisteredInv
    <3>3. CASE option.form = "long"
      BY <3>1, <3>2, <3>3 DEF Clash
    <3>4. CASE option.form = "short"
      BY <1>1, <3>1, <3>2, <3>4 DEF Clash
    <3> QED
      BY <2>1, <3>3, <3>4
  <2>3. CASE Named(option) = {}
    BY <2>3, FS_EmptySet
  <2>4. CASE Named(option) # {}
    <3>1. PICK n : n \in Named(option)
      BY <2>4
    <3>2. Named(option) = {n}
      BY <2>2, <3>1
    <3>3. Cardinality(Named(option)) = 1
      BY <3>2, FS_Singleton
    <3> QED
      BY <3>3
  <2> QED
    BY <2>3, <2>4
<1>2. outcome = "refused" => Clash(candidates)
  BY DEF IInv, RegisteredInv
<1> QED
  BY <1>1, <1>2 DEF OptionsUnambiguous

\* addArgument() refuses a list only if two of its arguments clash, and in any
\* list that it accepts an option names one argument at most.
THEOREM NamesUnambiguous == Spec => []OptionsUnambiguous
<1> QED
  BY UnambiguousFollows, Invariance, PTL

\* The loop of parse() accepts a command line just when a reading of the whole
\* line does.
THEOREM OutcomesMeant == Spec => []OutcomeAsMeant
<1>1. IInv => OutcomeAsMeant
  BY DEF IInv, OutcomeInv, OutcomeAsMeant, AcceptedAt, GivenAt
<1> QED
  BY <1>1, Invariance, PTL

\* Each argument ends with the last text that converts, however often and in
\* which order the arguments are given.
THEOREM ValuesGiven == Spec => []ValuesAsGiven
<1>1. IInv => ValuesAsGiven
  BY DEF IInv, ValuesInv, ValueMeant, ValuesAsGiven, NumericAt, GivenAt
<1> QED
  BY <1>1, Invariance, PTL

=============================================================================
