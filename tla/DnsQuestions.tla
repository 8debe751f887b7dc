----------------------------- MODULE DnsQuestions -----------------------------
(***************************************************************************)
(* How a DNS query from the TUN is answered when IPv6 is disabled           *)
(* (engine/dns.go): serveDNS receives it, exchange has parseDNSQuestions    *)
(* walk over its question section, byte by byte, and answers it itself,     *)
(* hands it to the resolver, or refuses it.                                *)
(*                                                                         *)
(* A query is the number of questions its header gives and the bytes after  *)
(* the header; offset counts from the end of the header.                   *)
(***************************************************************************)
EXTENDS Integers, Sequences

CONSTANT Queries    \* the queries that arrive

Byte == {n \in Nat : n < 256}

Query == [header : BOOLEAN, count : Nat, body : Seq(Byte)]
Type == {n \in Nat : n < 65536}

ASSUME QueriesAssumption == Queries \subseteq Query

TypeAAAA == 28
MaxQuestions == 64

VARIABLES
    query,      \* the query being answered
    pc,         \* where exchange is
    offset,     \* the position in its body
    types,      \* the types of the questions read so far
    response    \* what was written back to the TUN

vars == <<query, pc, offset, types, response>>

Response == [kind : {"none", "no data", "failure", "resolver"}, body : Seq(Byte)]
NoResponse == [kind |-> "none", body |-> <<>>]

(* That offset stays in the body matters: beyond it Go ends the process. *)
TypeOK ==
    /\ query \in Queries
    /\ pc \in {"answered", "length", "count", "name", "type", "decide", "resolver", "fail"}
    /\ offset \in 0..Len(query.body)
    /\ types \in Seq(Type)
    /\ response \in Response

Init ==
    /\ query \in Queries
    /\ pc = "length"
    /\ offset = 0
    /\ types = <<>>
    /\ response = NoResponse

(* The byte at an offset. *)
At(o) == query.body[o + 1]

Goto(from, to) ==
    /\ pc = from
    /\ pc' = to

-----------------------------------------------------------------------------
Fail(from) ==
    /\ Goto(from, "fail")
    /\ UNCHANGED <<query, offset, types, response>>

(* A message shorter than its header. *)
CheckLength ==
    IF query.header
    THEN /\ Goto("length", "count")
         /\ UNCHANGED <<query, offset, types, response>>
    ELSE Fail("length")

CheckCount ==
    IF query.count \in 1..MaxQuestions
    THEN /\ Goto("count", "name")
         /\ UNCHANGED <<query, offset, types, response>>
    ELSE Fail("count")

-----------------------------------------------------------------------------
(* The name of a question: labels, then a zero or a compression pointer.    *)

inside == offset < Len(query.body)

IsPointer(byte) == byte \div 64 = 3
IsLabel(byte) == byte \in 1..63

Advance(n, to) ==
    /\ Goto("name", to)
    /\ offset' = offset + n
    /\ UNCHANGED <<query, types, response>>

TruncatedName ==
    /\ ~inside
    /\ Fail("name")

EndOfName ==
    /\ inside /\ At(offset) = 0
    /\ Advance(1, "type")

(* Mutants: the pointer is followed, as a resolver would; its second byte   *)
(* is forgotten.                                                           *)
Pointer_Follows ==
    /\ inside /\ IsPointer(At(offset))
    /\ IF offset + 1 < Len(query.body) /\ At(offset + 1) >= 12
       THEN /\ pc = "name"
            /\ offset' = At(offset + 1) - 12
            /\ UNCHANGED <<query, pc, types, response>>
       ELSE Fail("name")

Pointer_OneByte ==
    /\ inside /\ IsPointer(At(offset))
    /\ Advance(1, "type")

(* A pointer ends the name; what it points to is not looked at. *)
Pointer ==
    /\ inside /\ IsPointer(At(offset))
    /\ IF offset + 1 < Len(query.body) THEN Advance(2, "type") ELSE Fail("name")

Label ==
    /\ inside /\ IsLabel(At(offset))
    /\ IF offset + 1 + At(offset) <= Len(query.body)
       THEN Advance(1 + At(offset), "name")
       ELSE Fail("name")

InvalidName ==
    /\ inside /\ At(offset) \div 64 \in {1, 2}
    /\ Fail("name")

Name == TruncatedName \/ EndOfName \/ Pointer \/ Label \/ InvalidName

-----------------------------------------------------------------------------
(* The type and the class of a question. *)

typeAt == 256 * At(offset) + At(offset + 1)

(* Mutant: only the type is known to be there, not the class. *)
ReadType_WithoutClass ==
    IF offset + 2 > Len(query.body)
    THEN Fail("type")
    ELSE /\ Goto("type", IF Len(types) + 1 = query.count THEN "decide" ELSE "name")
         /\ types' = Append(types, typeAt)
         /\ offset' = offset + 4
         /\ UNCHANGED <<query, response>>

ReadType ==
    IF offset + 4 > Len(query.body)
    THEN Fail("type")
    ELSE /\ Goto("type", IF Len(types) + 1 = query.count THEN "decide" ELSE "name")
         /\ types' = Append(types, typeAt)
         /\ offset' = offset + 4
         /\ UNCHANGED <<query, response>>

-----------------------------------------------------------------------------
(* exchange *)

(* dnsNoDataResponse: the query up to the end of its questions. *)
Respond(from, kind, body) ==
    /\ Goto(from, "answered")
    /\ response' = [kind |-> kind, body |-> body]
    /\ UNCHANGED <<query, offset, types>>

(* Mutant: only the first question is looked at. *)
Decide_FirstQuestion ==
    IF Len(types) > 0 /\ types[1] = TypeAAAA
    THEN Respond("decide", "no data", SubSeq(query.body, 1, offset))
    ELSE /\ Goto("decide", "resolver")
         /\ UNCHANGED <<query, offset, types, response>>

Decide ==
    IF \E i \in 1..Len(types) : types[i] = TypeAAAA
    THEN Respond("decide", "no data", SubSeq(query.body, 1, offset))
    ELSE /\ Goto("decide", "resolver")
         /\ UNCHANGED <<query, offset, types, response>>

(* The resolver, whose answer has the identifier of the query, or an error, *)
(* a status, a timeout. *)
Resolve ==
    \/ Respond("resolver", "resolver", <<>>)
    \/ Fail("resolver")

(* dnsFailureResponse: the whole query, or nothing if it has no header. *)
Refuse ==
    IF query.header
    THEN Respond("fail", "failure", query.body)
    ELSE Respond("fail", "none", <<>>)

-----------------------------------------------------------------------------

Exchange ==
    \/ CheckLength \/ CheckCount \/ Name \/ ReadType
    \/ Decide \/ Resolve \/ Refuse

(* serveDNS goes on with the next query, and keeps nothing of this one. *)
Answered ==
    /\ pc = "answered"
    /\ UNCHANGED vars

Next == Exchange \/ Answered

(* One goroutine per socket, and a timeout on the resolver. *)
Spec == Init /\ [][Next]_vars /\ WF_vars(Exchange)

-----------------------------------------------------------------------------
(* How questions are encoded (RFC 1035). A name is cut into labels that     *)
(* follow one another, and after them a zero or a compression pointer.     *)

LabelEnd(body, o) == o + 1 + body[o + 1]

LabelEnds(body) == {LabelEnd(body, o) : o \in {p \in 0..Len(body) - 1 : IsLabel(body[p + 1])}}

CutsName(cuts, body, from, to) ==
    /\ from \in cuts
    /\ \A o \in cuts :
          \/ body[o + 1] = 0 /\ o + 1 = to
          \/ IsPointer(body[o + 1]) /\ o + 2 = to
          \/ IsLabel(body[o + 1]) /\ LabelEnd(body, o) \in cuts

IsName(body, from, to) ==
    \E cuts \in SUBSET ((LabelEnds(body) \cup {from}) \cap from..to - 1) :
        CutsName(cuts, body, from, to)

TypeAt(body, o) == 256 * body[o + 1] + body[o + 2]

(* Where the questions of a query end, if it has as many as its header      *)
(* says: a type and a class of two bytes each follow the name.             *)
Layouts(q) ==
    IF q.header /\ q.count \in 1..MaxQuestions
    THEN {ends \in [0..q.count -> 0..Len(q.body)] :
             /\ ends[0] = 0
             /\ \A i \in 1..q.count : IsName(q.body, ends[i - 1], ends[i] - 4)}
    ELSE {}

TypesOf(q, ends) == [i \in 1..q.count |-> TypeAt(q.body, ends[i] - 4)]

(* parseDNSQuestions accepts a message exactly when it begins with as many  *)
(* encoded questions as its header says, and then it has found their types  *)
(* and their end.                                                          *)
ParsesTheFormat ==
    /\ pc = "decide" =>
          \E ends \in Layouts(query) :
              types = TypesOf(query, ends) /\ offset = ends[query.count]
    /\ pc = "fail" /\ Layouts(query) # {} => Len(types) = query.count

(* README.md, "AAAA queries return NODATA": no query that encodes a         *)
(* question for an IPv6 address reaches the resolver, wherever in it that   *)
(* question is, and the empty answer repeats exactly the questions.         *)
NoAddressOfIPv6 ==
    pc = "resolver" \/ response.kind = "no data" =>
        \A ends \in Layouts(query) :
            LET asks == \E i \in 1..query.count : TypesOf(query, ends)[i] = TypeAAAA
            IN  /\ pc = "resolver" => ~asks
                /\ response.kind = "no data" =>
                      asks /\ response.body = SubSeq(query.body, 1, ends[query.count])

(* Every query ends with a response or is dropped, however it is encoded:   *)
(* the parser always gets ahead, as it never follows a pointer.             *)
ExchangeEnds == pc = "length" ~> pc = "answered"

=============================================================================
