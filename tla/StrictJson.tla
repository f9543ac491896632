----------------------------- MODULE StrictJson -----------------------------
(***************************************************************************)
(* The duplicate-key scanners in front of every security-relevant JSON     *)
(* decoder: scanJSONValue (pkg/transaction/txn_verifier.go) and scanJSON   *)
(* (pkg/pingfederate/jwks_resolver.go) look into every object;             *)
(* uniqueJSONObjectFields (pkg/pingfederate/exchange.go) and               *)
(* decodeStrictAdapterResponse (pkg/agent/strict.go) only at the members   *)
(* of the top-level object, and skip over their values.                    *)
(*                                                                         *)
(* The scanner calls itself once per nested value; the stack below holds   *)
(* one frame per call.  The token stream is the one encoding/json's        *)
(* Decoder.Token yields: a token that the grammar does not allow here is   *)
(* an error of the library.                                                *)
(***************************************************************************)
EXTENDS Naturals, Sequences, FiniteSets

CONSTANTS
    Names,        \* member names, without regard to case
    MaxDepth,     \* bound: nesting
    MaxMembers    \* bound: members and array elements read

JsonAssumption == MaxDepth \in Nat /\ MaxMembers \in Nat

\* A key as it is spelt: as the decoder's struct tag has it, or in other case.
Keys == [name : Names, exact : BOOLEAN]

VARIABLES
    mode,         \* which scanner: "deep" or "shallow"
    stack,        \* the frames of the scanner, innermost last
    verdict,      \* what the scanner has returned
    members,      \* history: (object, key) of every member read, in order
    objects,      \* history: how many objects were opened
    read          \* how many values were read

vars == <<mode, stack, verdict, members, objects, read>>

\* "wants" is what an object's loop reads next; "object" numbers the objects.
Frame == [kind : {"object", "array"}, wants : {"key", "value"},
          seen : SUBSET Keys, object : Nat]

TypeOK ==
    /\ mode \in {"deep", "shallow"}
    /\ stack \in Seq(Frame) /\ Len(stack) <= MaxDepth
    /\ verdict \in {"scanning", "trailing", "accepted", "duplicate", "malformed"}
    /\ members \in Seq(Nat \X Keys)
    /\ objects \in Nat
    /\ read \in Nat

Init ==
    /\ mode \in {"deep", "shallow"}
    /\ stack = <<>>
    /\ verdict = "scanning"
    /\ members = <<>>
    /\ objects = 0
    /\ read = 0

-----------------------------------------------------------------------------
Top == stack[Len(stack)]

Below == SubSeq(stack, 1, Len(stack) - 1)

\* Where the grammar allows a value: at the start, in an array, after a key.
ValueExpected ==
    /\ verdict = "scanning"
    /\ read < MaxMembers
    /\ stack # <<>> => Top.kind = "array" \/ Top.wants = "value"

\* The stack once the innermost frame has had its value.
ValueTaken == IF stack = <<>> THEN <<>> ELSE Append(Below, [Top EXCEPT !.wants = "key"])

\* Mutant: one set of names for the whole document.
checkedEverywhere(key) == \E i \in 1..Len(stack) : key \in stack[i].seen

\* The duplicate test of the frame that reads the key.
repeated(key) == key \in Top.seen

\* The deep scanners test every object, the shallow ones the outermost.
Tested == mode = "deep" \/ Len(stack) = 1

\* A member's name: seen before in this object is an error, else remembered.
ReadKey(key) ==
    /\ verdict = "scanning"
    /\ stack # <<>> /\ Top.kind = "object" /\ Top.wants = "key"
    /\ members' = Append(members, <<Top.object, key>>)
    /\ \/ /\ Tested /\ repeated(key)
          /\ verdict' = "duplicate"
          /\ UNCHANGED stack
       \/ /\ ~(Tested /\ repeated(key))
          /\ stack' = Append(Below, [Top EXCEPT !.wants = "value",
                                                !.seen = @ \cup {key}])
          /\ UNCHANGED verdict
    /\ UNCHANGED <<mode, objects, read>>

\* A string, number, boolean or null.  Alone it satisfies the deep scanners;
\* the shallow ones want an object.
ReadScalar ==
    /\ ValueExpected
    /\ read' = read + 1
    /\ stack' = ValueTaken
    /\ verdict' = IF stack # <<>> THEN "scanning"
                  ELSE IF mode = "deep" THEN "trailing" ELSE "malformed"
    /\ UNCHANGED <<mode, members, objects>>

OpenObject ==
    /\ ValueExpected
    /\ Len(stack) < MaxDepth
    /\ read' = read + 1
    /\ objects' = objects + 1
    /\ stack' = Append(ValueTaken, [kind |-> "object", wants |-> "key",
                                    seen |-> {}, object |-> objects + 1])
    /\ UNCHANGED <<mode, verdict, members>>

OpenArray ==
    /\ ValueExpected
    /\ Len(stack) < MaxDepth
    /\ read' = read + 1
    /\ \/ /\ stack = <<>> /\ mode = "shallow"
          /\ verdict' = "malformed"
          /\ UNCHANGED stack
       \/ /\ stack # <<>> \/ mode = "deep"
          /\ stack' = Append(ValueTaken, [kind |-> "array", wants |-> "value",
                                          seen |-> {}, object |-> 0])
          /\ UNCHANGED verdict
    /\ UNCHANGED <<mode, members, objects>>

\* Decoder.More is false: the closing delimiter is read and the call returns.
Close ==
    /\ verdict = "scanning"
    /\ stack # <<>>
    /\ Top.kind = "array" \/ Top.wants = "key"
    /\ stack' = Below
    /\ verdict' = IF Below = <<>> THEN "trailing" ELSE "scanning"
    /\ UNCHANGED <<mode, members, objects, read>>

\* After the value there must be nothing.
Finish ==
    /\ verdict = "trailing"
    /\ verdict' \in {"accepted", "malformed"}
    /\ UNCHANGED <<mode, stack, members, objects, read>>

\* The input ends too soon or breaks the grammar.
SyntaxError ==
    /\ verdict = "scanning"
    /\ verdict' = "malformed"
    /\ UNCHANGED <<mode, stack, members, objects, read>>

Next ==
    \/ \E key \in Keys : ReadKey(key)
    \/ ReadScalar \/ OpenObject \/ OpenArray \/ Close
    \/ Finish \/ SyntaxError

Spec == Init /\ [][Next]_vars

-----------------------------------------------------------------------------
(* Properties *)

\* The objects whose members the scanner answers for.
Covered(object) == mode = "deep" \/ object = 1

\* The scanner's verdict is exactly the reference one: a document is accepted
\* only when no object it answers for has the same key twice, at any depth and
\* in any order of nesting, and is called duplicate only when the last key read
\* repeats one of the very same object: equal keys of sibling, enclosing or
\* enclosed objects never collide (scanJSONValue, uniqueJSONObjectFields).
ScanExact ==
    /\ verdict = "accepted" =>
          \A i, j \in DOMAIN members :
              members[i] = members[j] /\ Covered(members[i][1]) => i = j
    /\ verdict = "duplicate" =>
          \E i \in 1..(Len(members) - 1) : members[i] = members[Len(members)]

\* Acceptance means that one whole value was read, and that every call of the
\* recursion has returned.
AcceptedIsComplete ==
    verdict = "accepted" => stack = <<>> /\ read >= 1 /\ (mode = "shallow" => objects >= 1)

=============================================================================
