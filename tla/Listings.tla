------------------------------ MODULE Listings ------------------------------
(***************************************************************************)
(* The pure functions behind the page's lists: the resource names and      *)
(* filters of lib/resource.ts, the parsing and the input controller lists  *)
(* of remote-control-cards.vue, the options of do-command.vue, the rows of *)
(* sensors.vue, and the order of the operations.                           *)
(*                                                                         *)
(* A string is a sequence of tokens, ":" and "/" being two of them.  The   *)
(* constants Namespaces, ... list strings in ascending order, so that a    *)
(* resource is a record of numbers and comparing numbers compares strings. *)
(***************************************************************************)
EXTENDS Integers, Sequences, FiniteSets, TLC

CONSTANTS
    Token,        \* what strings are made of
    Namespaces, Types, Subtypes, Names,   \* the strings, in ascending order
    Controller,   \* the resource kind of input controllers, as three numbers
    ComponentType, \* the number of "component" in Types
    Gamepad,      \* the token WebGamepad
    Elapsed,      \* the elapsed times of operations that have a start time
    MaxListed     \* bound on the resources or operations listed

VARIABLES listed,   \* the resources, as the robot lists them
          ops       \* elapsed times of the operations, as the robot lists them

listVars == <<listed, ops>>

Kind == (DOMAIN Namespaces) \X (DOMAIN Types) \X (DOMAIN Subtypes)
Resource == [kind : Kind, name : DOMAIN Names]

\* The elapsed time of an operation without a start time.
NoStart == -1

Lists(S) == UNION {[1..k -> S] : k \in 0..MaxListed}
Distinct(s) == \A i, j \in DOMAIN s : s[i] = s[j] => i = j

\* The validations of resource.Subtype keep the separators out of namespaces,
\* types and subtypes (singleFieldRegexValidator); a name may have both.
ASSUME ListConstantsOK ==
    /\ {":", "/"} \subseteq Token
    /\ \A S \in {Namespaces, Types, Subtypes, Names} : S \in Seq(Seq(Token)) /\ Distinct(S)
    /\ \A S \in {Namespaces, Types, Subtypes} : \A i \in DOMAIN S : \A j \in DOMAIN S[i] :
          S[i][j] \notin {":", "/"}
    /\ MaxListed \in Nat

ListTypeOK ==
    /\ listed \in Seq(Resource) /\ Distinct(listed)
    /\ ops \in Seq(Elapsed \union {NoStart})

-----------------------------------------------------------------------------
(* Resource names. *)

\* resourceNameToSubtypeString.
SubtypeString(r) == Namespaces[r.kind[1]] \o <<":">> \o Types[r.kind[2]] \o <<":">> \o Subtypes[r.kind[3]]
\* Mutant: the subtype and the name only.
NameBySubtype(r) == Subtypes[r.kind[3]] \o <<"/">> \o Names[r.name]

\* resourceNameToString.
NameString(r) ==
    IF Names[r.name] = <<>> THEN SubtypeString(r) ELSE SubtypeString(r) \o <<"/">> \o Names[r.name]

\* The places where s is cut at c, its ends included, and the k-th of them.
Cuts(s, c) == {0, Len(s) + 1} \union {i \in DOMAIN s : s[i] = c}
Nth(cuts, k) == CHOOSE i \in cuts : Cardinality({j \in cuts : j < i}) = k

\* s.split(c): the parts between the places where c is.
Split(s, c) ==
    LET cuts == Cuts(s, c)
    IN [k \in 1..Cardinality(cuts) - 1 |-> SubSeq(s, Nth(cuts, k - 1) + 1, Nth(cuts, k) - 1)]

\* What stringToResourceName throws.
Throws == [kind |-> <<>>, name |-> <<>>]

\* Mutant: the colons of the name count too.
SplitsColonsFirst(s) ==
    LET kind == Split(s, ":")
    IN IF Len(kind) # 3 THEN Throws
       ELSE [kind |-> <<kind[1], kind[2], Split(kind[3], "/")[1]>>, name |-> <<>>]

\* stringToResourceName; it throws when the prefix has not three parts.
StringToResourceName(s) ==
    LET parts == Split(s, "/")
        kind == Split(parts[1], ":")
    IN IF Len(kind) # 3 THEN Throws
       ELSE [kind |-> kind, name |-> IF Len(parts) > 1 THEN parts[2] ELSE <<>>]

-----------------------------------------------------------------------------
(* Filters. *)

\* Mutant: by name only.
BeforeByName(r, s) == r.name <= s.name

\* sortByName: by name, then subtype, type and namespace.
Before(r, s) ==
    \/ r.name < s.name
    \/ r.name = s.name /\ r.kind[3] < s.kind[3]
    \/ r.name = s.name /\ r.kind[3] = s.kind[3] /\ r.kind[2] < s.kind[2]
    \/ r.name = s.name /\ r.kind[3] = s.kind[3] /\ r.kind[2] = s.kind[2] /\ r.kind[1] <= s.kind[1]

SortByName(list) == SortSeq(list, Before)

FilterResources(list, kind) == SortByName(SelectSeq(list, LAMBDA r : r.kind = kind))
FilterNonRemoteResources(list, kind) ==
    SelectSeq(FilterResources(list, kind), LAMBDA r : \A i \in DOMAIN Names[r.name] : Names[r.name][i] # ":")
FilterRdkComponentsWithStatus(list, status, subtype) ==
    SortByName(SelectSeq(list, LAMBDA r : r.kind = <<Controller[1], ComponentType, subtype>> /\ r \in status))
FilterComponentsWithNames(list) ==
    SortByName(SelectSeq(list, LAMBDA r : Names[r.name] # <<>> /\ r.kind[2] = ComponentType))

\* The last part of a name says whether it is the web gamepad.
IsGamepad(r) == LET parts == Split(Names[r.name], ":") IN parts[Len(parts)] = <<Gamepad>>

FilteredWebGamepads ==
    SelectSeq(FilterComponentsWithNames(listed), LAMBDA r : r.kind = Controller /\ IsGamepad(r))

\* Mutant: the gamepad of a remote is not recognised.
InputControllersByWholeName(reporting) ==
    SelectSeq(FilterComponentsWithNames(listed),
              LAMBDA r : r.kind = Controller /\ Names[r.name] # <<Gamepad>> /\ r \in reporting)

\* The other input controllers, those with a status.
FilteredInputControllerList(reporting) ==
    SelectSeq(FilterComponentsWithNames(listed),
              LAMBDA r : r.kind = Controller /\ ~IsGamepad(r) /\ r \in reporting)

-----------------------------------------------------------------------------
(* Readings. *)

\* getReadings, the callback: sensorReadings after an answer with a reading of
\* each of these sensors, a later one replacing an earlier one of the same key.
Filed(answer) ==
    [key \in {NameString(answer[i]) : i \in DOMAIN answer} |->
        answer[CHOOSE i \in DOMAIN answer :
                  /\ NameString(answer[i]) = key
                  /\ \A j \in DOMAIN answer : NameString(answer[j]) = key => j <= i]]

\* getData: what a row of the sensors card shows.
GetData(readings, r) ==
    IF NameString(r) \in DOMAIN readings THEN readings[NameString(r)] ELSE <<>>

-----------------------------------------------------------------------------
(* Operations. *)

\* Mutant: no start time is like any other time.
OpBeforePlain(e1, e2) == e1 - e2 < 0

\* The order of loadCurrentOps: op1 goes first when the comparison is negative.
OpBefore(e1, e2) == IF NoStart \in {e1, e2} THEN e2 - e1 < 0 ELSE e1 - e2 < 0

CurrentOps == SortSeq(ops, OpBefore)

-----------------------------------------------------------------------------
\* What the robot lists.
ListInit == listed = <<>> /\ ops = <<>>

NewResources ==
    /\ listed = <<>> /\ ops = <<>>
    /\ listed' \in {l \in Lists(Resource) : Distinct(l)}
    /\ UNCHANGED ops

NewOps ==
    /\ listed = <<>> /\ ops = <<>>
    /\ ops' \in Lists(Elapsed \union {NoStart})
    /\ UNCHANGED listed

ListNext == NewResources \/ NewOps

ListSpec == ListInit /\ [][ListNext]_listVars

-----------------------------------------------------------------------------
(* Properties. *)

Elements(s) == {s[i] : i \in DOMAIN s}

\* The cards, and their order, do not depend on the order in which the robot
\* lists its resources, whichever filter picks them (sortByName decides between
\* any two of them, consistently).
CardOrderIsStable ==
    \A p \in Permutations(DOMAIN listed) :
       LET other == [i \in DOMAIN listed |-> listed[p[i]]]
       IN /\ FilterComponentsWithNames(other) = FilterComponentsWithNames(listed)
          /\ \A r \in Elements(listed) :
               /\ FilterNonRemoteResources(other, r.kind) = FilterNonRemoteResources(listed, r.kind)
               /\ FilterRdkComponentsWithStatus(other, Elements(listed) \ {r}, r.kind[3])
                    = FilterRdkComponentsWithStatus(listed, Elements(listed) \ {r}, r.kind[3])

\* Whatever the name of a resource, of a remote or with a slash in it, its kind
\* can be read back from its string, which throws for no resource: queryMetadata
\* does so with every resource that came or went, to decide about the stream.
KindReadBack == \A r \in Elements(listed) :
    StringToResourceName(NameString(r)).kind = <<Namespaces[r.kind[1]], Types[r.kind[2]], Subtypes[r.kind[3]]>>

\* Every row of the sensors card shows the reading of its own sensor, and none
\* another's, for any sensors: of the same name, of a remote, or with a slash in
\* the name (no two resources have one resourceNameToString, which the statuses
\* are filed under too).
ReadingsAreOwn == \A r \in Elements(listed) : GetData(Filed(listed), r) = r

\* An input controller has one card at most: a web gamepad, here or on a remote,
\* is on the one list and never on the other, and any other controller with a
\* status is on the other.
OneCardPerController == \A reporting \in SUBSET Elements(listed) :
    LET pads == Elements(FilteredWebGamepads)
        others == Elements(FilteredInputControllerList(reporting))
        named == {r \in Elements(listed) : r.kind = Controller /\ Names[r.name] # <<>>}
    IN pads \intersect others = {} /\ named \intersect reporting \subseteq pads \union others

\* The operations are listed newest first, those without a start time at the
\* back, provided the page's clock is not behind the robot's.
NewestFirst == \A i, j \in DOMAIN CurrentOps : i < j =>
    \/ CurrentOps[j] = NoStart
    \/ CurrentOps[i] # NoStart /\ CurrentOps[i] <= CurrentOps[j]
=============================================================================
