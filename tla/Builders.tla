------------------------------ MODULE Builders ------------------------------
(***************************************************************************)
(* The request builders of bindings/python/client/keystonedb/builders.py:  *)
(* PutRequestBuilder, GetRequestBuilder, QueryRequestBuilder and           *)
(* ScanRequestBuilder.  A call site constructs one builder, calls its      *)
(* chained mutators, writes the public attributes that have no mutator     *)
(* (expression_values, filter_expression), and calls build() any number   *)
(* of times.  Put and Get build protobuf messages, which copy the fields;  *)
(* Query and Scan return a dict holding the builder's own                  *)
(* expression_values dict.                                                 *)
(***************************************************************************)
EXTENDS Integers, Sequences, SequencesExt

CONSTANTS
  Keys, EmptyKey,   \* partition keys (bytes); EmptyKey is b""
  SortKeys,         \* sort keys (bytes)
  SortValues,       \* sort-key condition operands, ordered as integers
  Names,            \* attribute names
  Vals,             \* string, number-text and binary payloads
  Expressions,      \* condition and filter expression strings
  Placeholders,     \* ":name" placeholders an expression may reference
  PlaceholdersOf,   \* [Expressions -> SUBSET Placeholders]
  Indexes,          \* index names
  Limits,           \* limit arguments
  SegmentArgs,      \* arguments of with_segment (ints, not validated)
  None,             \* Python None / an unset protobuf field
  MaxCalls,         \* bound: calls on one builder, constructor included
  MaxBuilds         \* bound: build() calls on one builder

ASSUME EmptyKey \in Keys /\ SortValues \subseteq Int /\ SegmentArgs \subseteq Int

\* The value dict {"<kind>": v} that pb.Value(**val) turns into a Value.
Values == [kind : {"string_value", "number_value", "binary_value"}, val : Vals]
            \cup [kind : {"bool_value"}, val : BOOLEAN]

\* Query/Scan build() puts the builder's dict object itself in the request.
AliasRef == "self.expression_values"

VARIABLES
  builder,  \* the builder object the call site holds
  log,      \* history: calls made on it, the constructor first
  built     \* history: requests its build() returned, with the log then
            \* and the request's contents at that moment

vars == <<builder, log, built>>

Call(op, a, b) == [op |-> op, a |-> a, b |-> b]

(***************************************************************************)
(* Constructors                                                            *)
(***************************************************************************)

NewPut(pk) == [cls |-> "Put", partition_key |-> pk, sort_key |-> None,
               attributes |-> [n \in Names |-> None], condition |-> None,
               expression_values |-> [p \in Placeholders |-> None]]

NewGet(pk) == [cls |-> "Get", partition_key |-> pk, sort_key |-> None]

NewQuery(pk) == [cls |-> "Query", partition_key |-> pk, sort_key_condition |-> None,
                 filter_expression |-> None,
                 expression_values |-> [p \in Placeholders |-> None],
                 index_name |-> None, limit |-> None, scan_forward |-> None]

NewScan == [cls |-> "Scan", filter_expression |-> None,
            expression_values |-> [p \in Placeholders |-> None],
            limit |-> None, index_name |-> None, segment |-> None,
            total_segments |-> None]

Constructions ==
  {<<NewPut(pk), Call("PutRequestBuilder", pk, None)>> : pk \in Keys}
    \cup {<<NewGet(pk), Call("GetRequestBuilder", pk, None)>> : pk \in Keys}
    \cup {<<NewQuery(pk), Call("QueryRequestBuilder", pk, None)>> : pk \in Keys}
    \cup {<<NewScan, Call("ScanRequestBuilder", None, None)>>}

Init ==
  \E bc \in Constructions :
    /\ builder = bc[1]
    /\ log = <<bc[2]>>
    /\ built = <<>>

\* The call site drops its builder and constructs a new one.
NewBuilder ==
  \E bc \in Constructions :
    /\ builder' = bc[1]
    /\ log' = <<bc[2]>>
    /\ built' = <<>>

(***************************************************************************)
(* Mutators: each assigns one field and returns self.                      *)
(***************************************************************************)

Mutate(cls, call, b) ==
  /\ builder.cls = cls
  /\ Len(log) < MaxCalls
  /\ builder' = b
  /\ log' = Append(log, call)
  /\ UNCHANGED built

Value(kind, v) == [kind |-> kind, val |-> v]

Put_with_sort_key(sk) ==
  Mutate("Put", Call("with_sort_key", sk, None), [builder EXCEPT !.sort_key = sk])

Put_with_string(n, v) ==
  Mutate("Put", Call("with_string", n, v),
         [builder EXCEPT !.attributes[n] = Value("string_value", v)])

Put_with_number(n, v) ==
  Mutate("Put", Call("with_number", n, v),
         [builder EXCEPT !.attributes[n] = Value("number_value", v)])

\* Mutant of Put_with_bool: the body copied from with_string.
Put_with_bool_as_string(n, v) ==
  Mutate("Put", Call("with_bool", n, v),
         [builder EXCEPT !.attributes[n] = Value("string_value", v)])

Put_with_bool(n, v) ==
  Mutate("Put", Call("with_bool", n, v),
         [builder EXCEPT !.attributes[n] = Value("bool_value", v)])

Put_with_binary(n, v) ==
  Mutate("Put", Call("with_binary", n, v),
         [builder EXCEPT !.attributes[n] = Value("binary_value", v)])

Put_with_condition(e) ==
  Mutate("Put", Call("with_condition", e, None), [builder EXCEPT !.condition = e])

Get_with_sort_key(sk) ==
  Mutate("Get", Call("with_sort_key", sk, None), [builder EXCEPT !.sort_key = sk])

SortKeyCondition(kind, lo, hi) == [kind |-> kind, lower |-> lo, upper |-> hi]

Query_with_sort_key_equal(v) ==
  Mutate("Query", Call("with_sort_key_equal", v, None),
         [builder EXCEPT !.sort_key_condition = SortKeyCondition("equal_to", v, None)])

\* Mutant of Query_with_sort_key_begins_with: the body copied from
\* with_sort_key_equal.
Query_with_sort_key_begins_with_as_equal(v) ==
  Mutate("Query", Call("with_sort_key_begins_with", v, None),
         [builder EXCEPT !.sort_key_condition = SortKeyCondition("equal_to", v, None)])

Query_with_sort_key_begins_with(v) ==
  Mutate("Query", Call("with_sort_key_begins_with", v, None),
         [builder EXCEPT !.sort_key_condition = SortKeyCondition("begins_with", v, None)])

Query_with_sort_key_between(lo, hi) ==
  Mutate("Query", Call("with_sort_key_between", lo, hi),
         [builder EXCEPT !.sort_key_condition = SortKeyCondition("between", lo, hi)])

Query_with_limit(l) ==
  Mutate("Query", Call("with_limit", l, None), [builder EXCEPT !.limit = l])

Query_with_index(x) ==
  Mutate("Query", Call("with_index", x, None), [builder EXCEPT !.index_name = x])

Query_with_scan_forward(f) ==
  Mutate("Query", Call("with_scan_forward", f, None), [builder EXCEPT !.scan_forward = f])

Scan_with_limit(l) ==
  Mutate("Scan", Call("with_limit", l, None), [builder EXCEPT !.limit = l])

Scan_with_segment(s, t) ==
  Mutate("Scan", Call("with_segment", s, t),
         [builder EXCEPT !.segment = s, !.total_segments = t])

\* The attributes without a mutator are written directly by the caller:
\* builder.expression_values[p] = {...} (in place) and
\* builder.filter_expression = e.
SetExpressionValue(p, v) ==
  /\ "expression_values" \in DOMAIN builder
  /\ Len(log) < MaxCalls
  /\ builder' = [builder EXCEPT !.expression_values[p] = v]
  /\ log' = Append(log, Call("expression_values", p, v))
  /\ UNCHANGED built

SetFilterExpression(e) ==
  /\ builder.cls \in {"Query", "Scan"}
  /\ Len(log) < MaxCalls
  /\ builder' = [builder EXCEPT !.filter_expression = e]
  /\ log' = Append(log, Call("filter_expression", e, None))
  /\ UNCHANGED built

(***************************************************************************)
(* build()                                                                 *)
(***************************************************************************)

\* What a request holds now: a Query/Scan request reads the builder's dict.
Deref(r) ==
  IF r.cls \in {"Query", "Scan"}
  THEN [r EXCEPT !.expression_values = builder.expression_values] ELSE r

Built(req) ==
  /\ Len(built) < MaxBuilds
  /\ built' = Append(built, [request |-> req, calls |-> log, contents |-> Deref(req)])
  /\ UNCHANGED <<builder, log>>

\* pb.PutRequest: the attribute dicts become Values, sort key and condition
\* are set when not None, expression values are copied with CopyFrom.
Put_build ==
  /\ builder.cls = "Put"
  /\ Built([cls |-> "Put", partition_key |-> builder.partition_key,
            sort_key |-> builder.sort_key, item |-> builder.attributes,
            condition_expression |-> builder.condition,
            expression_values |-> builder.expression_values])

Get_build ==
  /\ builder.cls = "Get"
  /\ Built([cls |-> "Get", partition_key |-> builder.partition_key,
            sort_key |-> builder.sort_key])

\* A dict of the builder's fields; exclusive_start_key has no writer here.
Query_build ==
  /\ builder.cls = "Query"
  /\ Built([cls |-> "Query", partition_key |-> builder.partition_key,
            sort_key_condition |-> builder.sort_key_condition,
            filter_expression |-> builder.filter_expression,
            expression_values |-> AliasRef, index_name |-> builder.index_name,
            limit |-> builder.limit, exclusive_start_key |-> None,
            scan_forward |-> builder.scan_forward])

Scan_build ==
  /\ builder.cls = "Scan"
  /\ Built([cls |-> "Scan", filter_expression |-> builder.filter_expression,
            expression_values |-> AliasRef, limit |-> builder.limit,
            exclusive_start_key |-> None, index_name |-> builder.index_name,
            segment |-> builder.segment, total_segments |-> builder.total_segments])

Next ==
  \/ NewBuilder
  \/ \E sk \in SortKeys : Put_with_sort_key(sk) \/ Get_with_sort_key(sk)
  \/ \E n \in Names :
       \/ \E v \in Vals : Put_with_string(n, v) \/ Put_with_number(n, v) \/ Put_with_binary(n, v)
       \/ \E v \in BOOLEAN : Put_with_bool(n, v)
  \/ \E e \in Expressions : Put_with_condition(e) \/ SetFilterExpression(e)
  \/ \E v \in SortValues : Query_with_sort_key_equal(v) \/ Query_with_sort_key_begins_with(v)
  \/ \E lo, hi \in SortValues : Query_with_sort_key_between(lo, hi)
  \/ \E l \in Limits : Query_with_limit(l) \/ Scan_with_limit(l)
  \/ \E x \in Indexes : Query_with_index(x)
  \/ \E f \in BOOLEAN : Query_with_scan_forward(f)
  \/ \E s, t \in SegmentArgs : Scan_with_segment(s, t)
  \/ \E p \in Placeholders, v \in Values : SetExpressionValue(p, v)
  \/ Put_build \/ Get_build \/ Query_build \/ Scan_build

Spec == Init /\ [][Next]_vars

(***************************************************************************)
(* Reference: the request the spec's contract determines from the calls   *)
(* (section 4.2: every field holds the argument of the last call that     *)
(* sets it; the three sort-key conditions exclude each other).            *)
(***************************************************************************)

LastCall(L, P(_)) ==
  LET I == {i \in 1..Len(L) : P(L[i])} IN IF I = {} THEN None ELSE L[Max(I)]

Arg(c) == IF c = None THEN None ELSE c.a

LastArg(L, op) == Arg(LastCall(L, LAMBDA x : x.op = op))

KindOf == [with_string |-> "string_value", with_number |-> "number_value",
           with_bool |-> "bool_value", with_binary |-> "binary_value"]

ConditionOf == [with_sort_key_equal |-> "equal_to",
                with_sort_key_begins_with |-> "begins_with",
                with_sort_key_between |-> "between"]

Expected(L) ==
  LET ev == [p \in Placeholders |->
               LET c == LastCall(L, LAMBDA x : x.op = "expression_values" /\ x.a = p)
               IN IF c = None THEN None ELSE c.b]
      item == [n \in Names |->
                 LET c == LastCall(L, LAMBDA x : x.op \in DOMAIN KindOf /\ x.a = n)
                 IN IF c = None THEN None ELSE Value(KindOf[c.op], c.b)]
      skc == LET c == LastCall(L, LAMBDA x : x.op \in DOMAIN ConditionOf)
             IN IF c = None THEN None ELSE SortKeyCondition(ConditionOf[c.op], c.a, c.b)
      seg == LastCall(L, LAMBDA x : x.op = "with_segment")
  IN CASE L[1].op = "PutRequestBuilder" ->
            [cls |-> "Put", partition_key |-> L[1].a,
             sort_key |-> LastArg(L, "with_sort_key"), item |-> item,
             condition_expression |-> LastArg(L, "with_condition"),
             expression_values |-> ev]
       [] L[1].op = "GetRequestBuilder" ->
            [cls |-> "Get", partition_key |-> L[1].a,
             sort_key |-> LastArg(L, "with_sort_key")]
       [] L[1].op = "QueryRequestBuilder" ->
            [cls |-> "Query", partition_key |-> L[1].a, sort_key_condition |-> skc,
             filter_expression |-> LastArg(L, "filter_expression"),
             expression_values |-> ev, index_name |-> LastArg(L, "with_index"),
             limit |-> LastArg(L, "with_limit"), exclusive_start_key |-> None,
             scan_forward |-> LastArg(L, "with_scan_forward")]
       [] L[1].op = "ScanRequestBuilder" ->
            [cls |-> "Scan", filter_expression |-> LastArg(L, "filter_expression"),
             expression_values |-> ev, limit |-> LastArg(L, "with_limit"),
             exclusive_start_key |-> None, index_name |-> LastArg(L, "with_index"),
             segment |-> Arg(seg),
             total_segments |-> IF seg = None THEN None ELSE seg.b]

(***************************************************************************)
(* Properties                                                              *)
(***************************************************************************)

Opt(S) == S \cup {None}

TypeOK ==
  /\ builder.cls \in {"Put", "Get", "Query", "Scan"}
  /\ builder.cls \in {"Put", "Get", "Query"} => builder.partition_key \in Keys
  /\ builder.cls \in {"Put", "Get"} => builder.sort_key \in Opt(SortKeys)
  /\ builder.cls = "Put" =>
       /\ builder.attributes \in [Names -> Opt(Values)]
       /\ builder.condition \in Opt(Expressions)
  /\ builder.cls = "Query" =>
       builder.sort_key_condition \in
         Opt([kind : {"equal_to", "begins_with"}, lower : SortValues, upper : {None}]
               \cup [kind : {"between"}, lower : SortValues, upper : SortValues])
  /\ builder.cls = "Scan" =>
       builder.segment \in Opt(SegmentArgs) /\ builder.total_segments \in Opt(SegmentArgs)
  /\ builder.cls # "Get" => builder.expression_values \in [Placeholders -> Opt(Values)]
  /\ Len(log) \in 1..MaxCalls
  /\ Len(built) \in 0..MaxBuilds

\* Last call wins (spec 4.2): whatever sequence of chained calls and
\* attribute writes precedes a build(), the request it returns holds, for
\* every field, the argument of the last call that set that field.
BuildReflectsCalls ==
  \A i \in 1..Len(built) : built[i].contents = Expected(built[i].calls)

\* build() freezes the request (spec section 3): writing the builder after
\* build() never changes a request it already returned.
RequestsStable ==
  \A i \in 1..Len(built) : Deref(built[i].request) = built[i].contents

\* build() rejects an empty partition key (spec 4.2, 7).
PartitionKeyRequired ==
  \A i \in 1..Len(built) :
    built[i].contents.cls # "Scan" => built[i].contents.partition_key # EmptyKey

\* build() rejects a scan segment outside 0 .. total_segments - 1
\* (spec 4.2, 8.2: segment=4, total_segments=4 must fail).
SegmentInRange ==
  \A i \in 1..Len(built) :
    LET r == built[i].contents IN
      r.cls = "Scan" /\ r.segment # None => 0 <= r.segment /\ r.segment < r.total_segments

\* build() rejects a Between sort-key condition with lower > upper
\* (spec 4.2, 8.3).
BetweenOrdered ==
  \A i \in 1..Len(built) :
    LET r == built[i].contents IN
      r.cls = "Query" /\ r.sort_key_condition # None
        /\ r.sort_key_condition.kind = "between"
        => r.sort_key_condition.lower <= r.sort_key_condition.upper

\* build() rejects a condition or filter expression that references a
\* placeholder with no binding in expression_values (spec 3, 4.2).
PlaceholdersBound ==
  \A i \in 1..Len(built) :
    LET r == built[i].contents
        e == CASE r.cls = "Put" -> r.condition_expression
               [] r.cls \in {"Query", "Scan"} -> r.filter_expression
               [] OTHER -> None
    IN e # None => \A p \in PlaceholdersOf[e] : r.expression_values[p] # None

=============================================================================
