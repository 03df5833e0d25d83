----------------------------- MODULE SampleBody -----------------------------
(***************************************************************************)
(* The sample body import_openapi makes up for an operation from the       *)
(* schema of its request (http-request/src/main.rs 782-954).  The schemas  *)
(* of a document form a graph; generate_from_schema walks it recursively,  *)
(* and its stack is the program's.                                         *)
(***************************************************************************)
EXTENDS Naturals, Sequences, FiniteSets

CONSTANTS
  Schema, \* the schemas of the document, those in components and inline ones
  Root    \* the one in the requestBody

SampleBodyAssumption == Root \in Schema /\ IsFiniteSet(Schema)

\* "object": type object, or properties alone.  "ref": a $ref, to nothing when
\* it does not resolve.  "first": allOf, oneOf or anyOf, with its first variant.
\* "leaf": an example, or a type that needs no schema.
Node ==
  [kind : {"object"}, next : SUBSET Schema]
    \cup [kind : {"array", "ref", "first"}, next : {{}} \cup {{s} : s \in Schema}]
    \cup [kind : {"leaf"}, next : {{}}]

VARIABLES
  spec,  \* Schema -> Node
  stack, \* the calls under way: [at, left], the schemas still to sample
  seen   \* the schemas that have a place in the sample

vars == <<spec, stack, seen>>

AsIs(s) == s
\* One step: what a $ref leads to may be a $ref itself.
Resolve(s) ==
  IF spec[s].kind = "ref" /\ spec[s].next # {}
  THEN CHOOSE t \in spec[s].next : TRUE ELSE s

\* The first variant is taken as it stands; a $ref has no type, no properties
\* and no variants, and gives the empty string.
Children(s) ==
  CASE spec[s].kind \in {"object", "array"} -> {Resolve(t) : t \in spec[s].next}
    [] spec[s].kind = "first"               -> spec[s].next
    [] OTHER                                -> {}

Sampling(s) == [at |-> s, left |-> Children(s)]
Top == stack[Len(stack)]

Init ==
  /\ spec \in [Schema -> Node]
  /\ stack = <<Sampling(Resolve(Root))>>
  /\ seen = {Resolve(Root)}

DescendAgain(s) ==
  /\ stack # <<>> /\ s \in Top.left
  /\ stack' = Append(stack, Sampling(s))
  /\ seen' = seen \cup {s}
  /\ UNCHANGED spec
Descend(s) ==
  /\ stack # <<>> /\ s \in Top.left
  /\ stack' = Append([stack EXCEPT ![Len(stack)].left = @ \ {s}], Sampling(s))
  /\ seen' = seen \cup {s}
  /\ UNCHANGED spec

Return ==
  /\ stack # <<>> /\ Top.left = {}
  /\ stack' = SubSeq(stack, 1, Len(stack) - 1)
  /\ UNCHANGED <<spec, seen>>

Next == Return \/ \E s \in Schema : Descend(s)

Spec == Init /\ [][Next]_vars /\ WF_vars(Next)

-----------------------------------------------------------------------------
\* No schema that Root leads to leads back to itself.
Acyclic ==
  \E rank \in [Schema -> 0..Cardinality(Schema)] :
    /\ rank[Resolve(Root)] > 0
    /\ \A s \in Schema : rank[s] > 0 =>
         \A t \in Children(s) : rank[t] \in 1..(rank[s] - 1)

TypeOK ==
  /\ spec \in [Schema -> Node]
  /\ \A k \in DOMAIN stack : stack[k] \in [at : Schema, left : SUBSET Schema]
  /\ seen \subseteq Schema

\* Every property of an object that is sampled is sampled too, by way of its
\* $ref when it is one.
PropertiesAreThere ==
  stack = <<>> =>
    \A s \in seen : spec[s].kind = "object" =>
      \A t \in spec[s].next :
        IF spec[t].kind = "ref" /\ spec[t].next # {} THEN spec[t].next \subseteq seen
                                                     ELSE t \in seen

\* The recursion ends if, and only if, no schema it comes to leads back to
\* itself; what a document says elsewhere does not matter.
SampleEnds == (Acyclic ~> stack = <<>>) /\ [](~Acyclic => stack # <<>>)
=============================================================================
