-------------------------- MODULE DnsQuestionsProofs --------------------------
(* parseDNSQuestions, for every message of any length: it stays inside the  *)
(* message, it accepts exactly what the format of DnsQuestions admits, and  *)
(* no question for an IPv6 address reaches the resolver.                    *)
EXTENDS DnsQuestions, SequenceTheorems, TLAPS

(* What the provers have to know of the query being answered. *)
LEMMA QueryType ==
    ASSUME query \in Queries
    PROVE  /\ query.body \in Seq(Byte) /\ Len(query.body) \in Nat
           /\ query.count \in Nat
<1>1. query \in Query
  BY QueriesAssumption
<1>2. query.body \in Seq(Byte) /\ query.count \in Nat
  BY <1>1 DEF Query
<1> QED
  BY <1>2

(* The bytes of a body are numbers below 256. *)
LEMMA BytesOfBody ==
    ASSUME query.body \in Seq(Byte), NEW o \in 0..Len(query.body) - 1
    PROVE  At(o) \in Byte
  BY DEF At

(* Two bytes are a 16-bit number. *)
LEMMA TwoBytes ==
    ASSUME NEW high \in Byte, NEW low \in Byte
    PROVE  256 * high + low \in Type
<1>1. high \in Nat /\ high < 256 /\ low \in Nat /\ low < 256
  BY DEF Byte
<1>2. 256 * high + low \in Nat /\ 256 * high + low < 65536
  BY <1>1
<1> QED
  BY <1>2 DEF Type

(* A body may be empty. *)
LEMMA NoBytes == <<>> \in Seq(Byte)
  OBVIOUS

(* What a response is made of. *)
LEMMA ResponseType ==
    ASSUME NEW kind \in {"none", "no data", "failure", "resolver"},
           NEW body \in Seq(Byte)
    PROVE  [kind |-> kind, body |-> body] \in Response
  BY DEF Response

(* offset stays in 0..Len(query.body) in every step of the walk, and types  *)
(* are 16 bits: no index of a message is out of range (engine/dns.go reads  *)
(* and slices it unguarded after these tests).                              *)
LEMMA TypeStep == TypeOK /\ [Next]_vars => TypeOK'
<1> SUFFICES ASSUME TypeOK, [Next]_vars
             PROVE  TypeOK'
  OBVIOUS
<1>0. query.body \in Seq(Byte) /\ Len(query.body) \in Nat /\ query.count \in Nat
  BY QueryType DEF TypeOK
<1>1. CASE CheckLength
  BY <1>1 DEF TypeOK, CheckLength, Goto, Fail
<1>2. CASE CheckCount
  BY <1>2 DEF TypeOK, CheckCount, Goto, Fail
<1>3. CASE Name
  <2>1. CASE TruncatedName
    BY <2>1 DEF TypeOK, TruncatedName, Goto, Fail
  <2>2. CASE EndOfName
    BY <2>2, <1>0 DEF TypeOK, EndOfName, Advance, Goto, inside
  <2>3. CASE Pointer
    BY <2>3, <1>0 DEF TypeOK, Pointer, Advance, Goto, Fail, inside
  <2>4. CASE Label
    <3>1. IsLabel(At(offset))
      BY <2>4 DEF Label
    <3>2. At(offset) \in Nat
      BY <3>1 DEF IsLabel
    <3> QED
      BY <2>4, <1>0, <3>2 DEF TypeOK, Label, Advance, Goto, Fail
  <2>5. CASE InvalidName
    BY <2>5 DEF TypeOK, InvalidName, Goto, Fail
  <2> QED
    BY <1>3, <2>1, <2>2, <2>3, <2>4, <2>5 DEF Name
<1>4. CASE ReadType
  <2>1. CASE offset + 4 > Len(query.body)
    BY <1>4, <2>1 DEF TypeOK, ReadType, Goto, Fail
  <2>2. CASE ~(offset + 4 > Len(query.body))
    <3>1. At(offset) \in Byte /\ At(offset + 1) \in Byte
      BY <1>0, <2>2, BytesOfBody DEF TypeOK
    <3>2. typeAt \in Type
      BY <3>1, TwoBytes DEF typeAt
    <3>3. Append(types, typeAt) \in Seq(Type)
      BY <3>2 DEF TypeOK
    <3>4. /\ types' = Append(types, typeAt) /\ offset' = offset + 4
          /\ query' = query /\ response' = response
          /\ pc' \in {"decide", "name"}
      BY <1>4, <2>2 DEF ReadType, Goto
    <3>5. offset' \in 0..Len(query'.body)
      BY <1>0, <2>2, <3>4 DEF TypeOK
    <3> QED
      BY <3>3, <3>4, <3>5 DEF TypeOK
  <2> QED
    BY <2>1, <2>2
<1>5. CASE Decide
  <2>1. SubSeq(query.body, 1, offset) \in Seq(Byte)
    BY <1>0, SubSeqProperties DEF TypeOK
  <2>2. [kind |-> "no data", body |-> SubSeq(query.body, 1, offset)] \in Response
    BY <2>1, ResponseType
  <2> QED
    BY <1>5, <2>2 DEF TypeOK, Decide, Respond, Goto
<1>6. CASE Resolve
  <2>1. [kind |-> "resolver", body |-> <<>>] \in Response
    BY NoBytes, ResponseType
  <2> QED
    BY <1>6, <2>1 DEF TypeOK, Resolve, Respond, Goto, Fail
<1>7. CASE Refuse
  <2>1. [kind |-> "failure", body |-> query.body] \in Response
    BY <1>0, ResponseType
  <2>2. [kind |-> "none", body |-> <<>>] \in Response
    BY NoBytes, ResponseType
  <2> QED
    BY <1>7, <2>1, <2>2 DEF TypeOK, Refuse, Respond, Goto
<1>8. CASE UNCHANGED vars
  BY <1>8 DEF TypeOK, vars
<1> QED
  BY <1>1, <1>2, <1>3, <1>4, <1>5, <1>6, <1>7, <1>8 DEF Next, Exchange, Answered

(* Whatever bytes arrive, the walk stays inside the message. *)
THEOREM StaysInside == Spec => []TypeOK
<1>1. Init => TypeOK
  <2> SUFFICES ASSUME Init PROVE TypeOK
    OBVIOUS
  <2>1. Len(query.body) \in Nat
    BY QueryType DEF Init
  <2>2. NoResponse \in Response
    BY NoBytes, ResponseType DEF NoResponse
  <2> QED
    BY <2>1, <2>2 DEF Init, TypeOK
<1> QED
  BY <1>1, TypeStep, PTL DEF Spec

-----------------------------------------------------------------------------
(* parseDNSQuestions agrees with the format. A walk over a message that     *)
(* does encode its questions visits the cuts of every one of its names, in  *)
(* whatever way it is encoded.                                             *)

Body == query.body
Read == Len(types)

Parsing(ends) ==
    /\ \A j \in 1..Read : types[j] = TypeAt(Body, ends[j] - 4)
    /\ pc \in {"length", "count"} => Read = 0 /\ offset = 0
    /\ pc \in {"name", "type"} => Read < query.count
    /\ pc = "name" =>
          \E cuts \in SUBSET (ends[Read] .. ends[Read + 1] - 5) :
              CutsName(cuts, Body, ends[Read], ends[Read + 1] - 4) /\ offset \in cuts
    /\ pc = "type" => offset = ends[Read + 1] - 4
    /\ pc \in {"decide", "resolver", "fail"} => Read = query.count
    /\ pc = "decide" => offset = ends[Read]

Asks == \E i \in 1..Read : types[i] = TypeAAAA

Answering(ends) ==
    /\ pc = "resolver" => ~Asks
    /\ pc # "answered" => response = NoResponse
    /\ response.kind = "no data" =>
          /\ Asks /\ Read = query.count
          /\ response.body = SubSeq(Body, 1, ends[Read])

FormatInv == \A ends \in Layouts(query) : Parsing(ends) /\ Answering(ends)

(* And what the walk has accepted so far is encoded as the format says: the *)
(* questions that end before offset, and the labels of the next name.      *)

InName(body, from, o) ==
    /\ from <= o /\ o \in LabelEnds(body) \cup {from}
    /\ \E cuts \in SUBSET ((LabelEnds(body) \cup {from}) \cap from..o - 1) :
          /\ from \in cuts \cup {o}
          /\ \A p \in cuts : IsLabel(body[p + 1]) /\ LabelEnd(body, p) \in cuts \cup {o}

Accepted(ends) ==
    /\ ends[0] = 0
    /\ \A i \in 1..Read :
          /\ IsName(Body, ends[i - 1], ends[i] - 4)
          /\ types[i] = TypeAt(Body, ends[i] - 4)
    /\ pc = "name" => InName(Body, ends[Read], offset)
    /\ pc = "type" => IsName(Body, ends[Read], offset)
    /\ pc = "decide" => offset = ends[Read]

AcceptInv ==
    pc \in {"length", "count", "name", "type", "decide"} =>
        /\ pc \in {"length", "count"} => Read = 0 /\ offset = 0
        /\ pc # "length" => query.header
        /\ pc \notin {"length", "count"} => query.count \in 1..MaxQuestions
        /\ pc \in {"name", "type"} => Read < query.count
        /\ pc = "decide" => Read = query.count
        /\ \E ends \in [0..Read -> 0..Len(Body)] : Accepted(ends)

-----------------------------------------------------------------------------
(* A byte at which a name goes on is a length, an end or a pointer.         *)
LEMMA KindsOfByte ==
    ASSUME NEW b \in Byte
    PROVE  /\ b = 0 => ~IsLabel(b) /\ ~IsPointer(b) /\ b \div 64 \notin {1, 2}
           /\ IsLabel(b) => b # 0 /\ ~IsPointer(b) /\ b \div 64 \notin {1, 2}
           /\ IsPointer(b) => b # 0 /\ ~IsLabel(b) /\ b \div 64 \notin {1, 2}
  BY DEF Byte, IsLabel, IsPointer

(* What it means that a query is encoded as the format says.                *)
LEMMA LayoutFacts ==
    ASSUME TypeOK, NEW ends \in Layouts(query)
    PROVE  /\ query.header /\ query.count \in 1..MaxQuestions
           /\ query.count \in Nat /\ query.count > 0 /\ Len(Body) \in Nat
           /\ ends \in [0..query.count -> 0..Len(Body)]
           /\ ends[0] = 0
           /\ \A i \in 1..query.count : IsName(Body, ends[i - 1], ends[i] - 4)
<1>1. query.count \in Nat /\ Len(Body) \in Nat
  BY QueryType DEF TypeOK, Body
<1>2. query.header /\ query.count \in 1..MaxQuestions
  BY DEF Layouts
<1>3. ends \in {e \in [0..query.count -> 0..Len(Body)] :
                  /\ e[0] = 0
                  /\ \A i \in 1..query.count : IsName(Body, e[i - 1], e[i] - 4)}
  BY <1>2 DEF Layouts, Body
<1>4. /\ ends \in [0..query.count -> 0..Len(Body)] /\ ends[0] = 0
      /\ \A i \in 1..query.count : IsName(Body, ends[i - 1], ends[i] - 4)
  BY <1>3
<1>5. query.count > 0
  <2>1. MaxQuestions \in Nat
    BY DEF MaxQuestions
  <2> QED
    BY <1>1, <1>2, <2>1
<1> QED
  BY <1>1, <1>2, <1>4, <1>5

(* The next step of a walk through a name that is cut at offset: it gets to *)
(* the next cut or to the end of the name.                                 *)
LEMMA AtCut ==
    ASSUME TypeOK, NEW from \in Nat, NEW to \in Int, to <= Len(Body), NEW cuts \in SUBSET (from..to - 1),
           CutsName(cuts, Body, from, to), offset \in cuts
    PROVE  /\ inside /\ offset + 1 <= to
           /\ At(offset) \in Byte
           /\ \/ At(offset) = 0 /\ offset + 1 = to
              \/ IsPointer(At(offset)) /\ offset + 2 = to
              \/ IsLabel(At(offset)) /\ offset + 1 + At(offset) \in cuts
                                     /\ offset + 1 + At(offset) <= Len(Body)
<1>1. Body \in Seq(Byte) /\ Len(Body) \in Nat /\ offset \in 0..Len(Body)
  BY QueryType DEF TypeOK, Body
<1>2. offset \in from..to - 1 /\ offset < Len(Body)
  BY <1>1
<1>3. At(offset) \in Byte /\ At(offset) = Body[offset + 1]
  BY <1>1, <1>2, BytesOfBody DEF Body, At
<1>4. \/ At(offset) = 0 /\ offset + 1 = to
      \/ IsPointer(At(offset)) /\ offset + 2 = to
      \/ IsLabel(At(offset)) /\ offset + 1 + At(offset) \in cuts
  BY <1>3 DEF CutsName, LabelEnd
<1>5. \A o \in cuts : o <= Len(Body)
  BY <1>1
<1>6. inside /\ offset + 1 <= to
  BY <1>1, <1>2 DEF inside, Body
<1>7. CASE IsLabel(At(offset)) /\ offset + 1 + At(offset) \in cuts
  <2>1. offset + 1 + At(offset) <= Len(Body)
    BY <1>5, <1>7
  <2> QED
    BY <1>3, <1>6, <1>7, <2>1
<1> QED
  BY <1>3, <1>4, <1>6, <1>7

(* The name that comes next begins at a cut.                                *)
LEMMA NextName ==
    ASSUME TypeOK, NEW ends \in Layouts(query), NEW n \in 0..query.count - 1
    PROVE  \E cuts \in SUBSET (ends[n] .. ends[n + 1] - 5) :
              CutsName(cuts, Body, ends[n], ends[n + 1] - 4) /\ ends[n] \in cuts
<1>1. n + 1 \in 1..query.count /\ (n + 1) - 1 = n
  BY LayoutFacts
<1>2. IsName(Body, ends[n], ends[n + 1] - 4)
  BY <1>1, LayoutFacts
<1>3. PICK from, to : from = ends[n] /\ to = ends[n + 1] - 4
  OBVIOUS
<1>4. PICK cuts \in SUBSET ((LabelEnds(Body) \cup {from}) \cap from..to - 1) :
         CutsName(cuts, Body, from, to)
  BY <1>2, <1>3 DEF IsName
<1>5. from \in cuts
  BY <1>4 DEF CutsName
<1>6. ends[n + 1] \in Int /\ to - 1 = ends[n + 1] - 5
  <2>1. n + 1 \in 0..query.count /\ Len(Body) \in Nat
    BY <1>1, LayoutFacts
  <2>2. ends[n + 1] \in 0..Len(Body)
    BY <2>1, LayoutFacts
  <2> QED
    BY <1>3, <2>1, <2>2
<1> QED
  BY <1>3, <1>4, <1>5, <1>6

-----------------------------------------------------------------------------
(* A walk over an encoded message.                                          *)

(* Steps that read no type keep the types read so far.                      *)
LEMMA SameTypes ==
    ASSUME NEW ends, Parsing(ends), UNCHANGED <<query, types>>
    PROVE  /\ \A j \in 1..Read' : types'[j] = TypeAt(Body', ends[j] - 4)
           /\ Body' = Body /\ Read' = Read /\ Asks' = Asks
  BY DEF Parsing, Body, Read, Asks

LEMMA NameFollows ==
    ASSUME TypeOK, NEW ends \in Layouts(query), Parsing(ends), Answering(ends), Name
    PROVE  (Parsing(ends) /\ Answering(ends))'
<1>1. pc = "name" /\ UNCHANGED <<query, types, response>>
  BY DEF Name, TruncatedName, EndOfName, Pointer, Label, InvalidName, Fail, Advance, Goto
<1>2. /\ \A j \in 1..Read' : types'[j] = TypeAt(Body', ends[j] - 4)
      /\ Body' = Body /\ Read' = Read /\ Asks' = Asks
  BY <1>1, SameTypes
<1>3. Read \in Nat /\ Read < query.count /\ query.count \in Nat
  BY <1>1, LayoutFacts DEF Parsing, Read, TypeOK
<1>4. PICK cuts \in SUBSET (ends[Read] .. ends[Read + 1] - 5) :
         CutsName(cuts, Body, ends[Read], ends[Read + 1] - 4) /\ offset \in cuts
  BY <1>1 DEF Parsing
<1>5. PICK from, to : from = ends[Read] /\ to = ends[Read + 1] - 4
  OBVIOUS
<1>6. from \in Nat /\ to \in Int /\ to <= Len(Body) /\ to - 1 = ends[Read + 1] - 5
  <2>1. Read \in 0..query.count /\ Read + 1 \in 0..query.count /\ Len(Body) \in Nat
    BY <1>3, LayoutFacts
  <2>2. ends[Read] \in 0..Len(Body) /\ ends[Read + 1] \in 0..Len(Body)
    BY <2>1, LayoutFacts
  <2> QED
    BY <1>5, <2>1, <2>2
<1>7. /\ inside /\ At(offset) \in Byte
      /\ \/ At(offset) = 0 /\ offset + 1 = to
         \/ IsPointer(At(offset)) /\ offset + 2 = to
         \/ IsLabel(At(offset)) /\ offset + 1 + At(offset) \in cuts
                                /\ offset + 1 + At(offset) <= Len(Body)
  BY <1>4, <1>5, <1>6, AtCut
<1>8. Answering(ends)'
  <2>1. pc' \in {"name", "type", "fail"}
    BY <1>1 DEF Name, TruncatedName, EndOfName, Pointer, Label, InvalidName, Fail, Advance, Goto
  <2>2. response = NoResponse
    BY <1>1 DEF Answering
  <2> QED
    BY <1>1, <2>1, <2>2 DEF Answering, NoResponse
<1>9. Parsing(ends)'
  <2>1. CASE EndOfName \/ Pointer
    <3>1. pc' = "type" /\ offset' = to
      <4>1. CASE EndOfName
        BY <1>7, <4>1, KindsOfByte DEF EndOfName, Advance, Goto
      <4>2. CASE Pointer
        <5>1. IsPointer(At(offset)) /\ offset + 2 = to
          BY <1>7, <4>2, KindsOfByte DEF Pointer
        <5>2. offset + 1 < Len(query.body)
          BY <1>6, <5>1 DEF Body, TypeOK
        <5> QED
          BY <4>2, <5>1, <5>2 DEF Pointer, Advance, Goto
      <4> QED
        BY <2>1, <4>1, <4>2
    <3>2. offset' = ends[Read + 1] - 4
      BY <1>5, <3>1
    <3> QED
      BY <1>1, <1>2, <1>3, <3>1, <3>2 DEF Parsing
  <2>2. CASE Label
    <3>1. IsLabel(At(offset))
      BY <2>2 DEF Label
    <3>2. offset + 1 + At(offset) \in cuts /\ offset + 1 + At(offset) <= Len(query.body)
      BY <1>7, <3>1, KindsOfByte DEF Body
    <3>3. pc' = "name" /\ offset' \in cuts
      <4>1. Advance(1 + At(offset), "name")
        BY <2>2, <3>2 DEF Label
      <4>2. offset + (1 + At(offset)) = offset + 1 + At(offset)
        BY <1>7 DEF TypeOK, Byte
      <4> QED
        BY <3>2, <4>1, <4>2 DEF Advance, Goto
    <3>4. \E c \in SUBSET (ends[Read'] .. ends[Read' + 1] - 5) :
             CutsName(c, Body', ends[Read'], ends[Read' + 1] - 4) /\ offset' \in c
      BY <1>2, <1>4, <3>3
    <3> QED
      BY <1>1, <1>2, <1>3, <3>3, <3>4 DEF Parsing
  <2>3. CASE TruncatedName
    BY <1>7, <2>3 DEF TruncatedName
  <2>4. CASE InvalidName
    BY <1>7, <2>4, KindsOfByte DEF InvalidName
  <2> QED
    BY <2>1, <2>2, <2>3, <2>4 DEF Name
<1> QED
  BY <1>8, <1>9

LEMMA TypeFollows ==
    ASSUME TypeOK, NEW ends \in Layouts(query), Parsing(ends), Answering(ends), ReadType
    PROVE  (Parsing(ends) /\ Answering(ends))'
<1>1. pc = "type" /\ UNCHANGED <<query, response>>
  BY DEF ReadType, Fail, Goto
<1>2. Read \in Nat /\ Read < query.count /\ query.count \in Nat /\ offset = ends[Read + 1] - 4
  BY <1>1, LayoutFacts DEF Parsing, Read, TypeOK
<1>3. PICK n : n = Read + 1
  OBVIOUS
<1>4. /\ n \in 1..query.count /\ n \in 0..query.count /\ ends[n] \in 0..Len(Body)
      /\ Len(Body) \in Nat /\ offset = ends[n] - 4 /\ offset + 4 = ends[n]
  <2>1. n \in 0..query.count /\ n \in 1..query.count
    BY <1>2, <1>3
  <2>2. ends[n] \in 0..Len(Body) /\ Len(Body) \in Nat
    BY <2>1, LayoutFacts
  <2> QED
    BY <1>2, <1>3, <2>1, <2>2
<1>5. ~(offset + 4 > Len(query.body))
  BY <1>4 DEF Body
<1>6. /\ types' = Append(types, typeAt) /\ offset' = ends[n]
      /\ pc' = IF Len(types) + 1 = query.count THEN "decide" ELSE "name"
  BY <1>4, <1>5 DEF ReadType, Goto
<1>7. typeAt = TypeAt(Body, ends[n] - 4)
  <2>1. offset + 1 + 1 = offset + 2
    BY DEF TypeOK
  <2> QED
    BY <1>4, <2>1 DEF typeAt, TypeAt, At, Body
<1>8. /\ Read' = n /\ Body' = Body
      /\ \A j \in 1..n : types'[j] = IF j = n THEN typeAt ELSE types[j]
  BY <1>1, <1>3, <1>6 DEF Read, Body, TypeOK
<1>9. \A j \in 1..Read' : types'[j] = TypeAt(Body', ends[j] - 4)
  <2>1. \A j \in 1..Read : types[j] = TypeAt(Body, ends[j] - 4)
    BY DEF Parsing
  <2>2. \A j \in 1..n : j = n \/ j \in 1..Read
    BY <1>2, <1>3
  <2> QED
    BY <1>7, <1>8, <2>1, <2>2
<1>10. Answering(ends)'
  <2>1. pc' \in {"decide", "name"}
    BY <1>6
  <2>2. response = NoResponse
    BY <1>1 DEF Answering
  <2> QED
    BY <1>1, <2>1, <2>2 DEF Answering, NoResponse
<1>11. CASE n = query.count
  <2>1. pc' = "decide"
    BY <1>3, <1>6, <1>11 DEF Read
  <2> QED
    BY <1>1, <1>6, <1>8, <1>9, <1>10, <1>11, <2>1 DEF Parsing
<1>12. CASE n # query.count
  <2>1. pc' = "name" /\ n \in 0..query.count - 1 /\ n < query.count
    BY <1>2, <1>3, <1>4, <1>6, <1>12 DEF Read
  <2>2. \E cuts \in SUBSET (ends[n] .. ends[n + 1] - 5) :
           CutsName(cuts, Body, ends[n], ends[n + 1] - 4) /\ ends[n] \in cuts
    BY <2>1, NextName
  <2> QED
    BY <1>1, <1>6, <1>8, <1>9, <1>10, <2>1, <2>2 DEF Parsing
<1> QED
  BY <1>11, <1>12

LEMMA RestFollows ==
    ASSUME TypeOK, NEW ends \in Layouts(query), Parsing(ends), Answering(ends),
           CheckLength \/ CheckCount \/ Decide \/ Resolve \/ Refuse \/ UNCHANGED vars
    PROVE  (Parsing(ends) /\ Answering(ends))'
<1>1. UNCHANGED <<query, types, offset>>
  BY DEF CheckLength, CheckCount, Decide, Resolve, Refuse, Fail, Respond, Goto, vars
<1>2. /\ \A j \in 1..Read' : types'[j] = TypeAt(Body', ends[j] - 4)
      /\ Body' = Body /\ Read' = Read /\ Asks' = Asks
  BY <1>1, SameTypes
<1>3. CASE CheckLength
  <2>1. pc = "length" /\ pc' = "count" /\ response' = response
    BY <1>3, LayoutFacts DEF CheckLength, Goto
  <2> QED
    BY <1>1, <1>2, <2>1 DEF Parsing, Answering
<1>4. CASE CheckCount
  <2>1. pc = "count" /\ pc' = "name" /\ response' = response
    BY <1>4, LayoutFacts DEF CheckCount, Goto
  <2>2. Read = 0 /\ offset = 0 /\ ends[0] = 0 /\ 0 \in 0..query.count - 1 /\ 0 < query.count
    BY <2>1, LayoutFacts DEF Parsing
  <2>3. \E cuts \in SUBSET (ends[0] .. ends[0 + 1] - 5) :
           CutsName(cuts, Body, ends[0], ends[0 + 1] - 4) /\ ends[0] \in cuts
    BY <2>2, NextName
  <2> QED
    BY <1>1, <1>2, <2>1, <2>2, <2>3 DEF Parsing, Answering
<1>5. CASE Decide
  <2>1. pc = "decide" /\ Read = query.count /\ offset = ends[Read] /\ response = NoResponse
    BY <1>5 DEF Decide, Respond, Goto, Parsing, Answering
  <2>2. CASE Asks
    <3>1. Respond("decide", "no data", SubSeq(query.body, 1, offset))
      BY <1>5, <2>2 DEF Decide, Asks, Read
    <3>2. /\ pc' = "answered"
          /\ response'.kind = "no data" /\ response'.body = SubSeq(Body, 1, ends[Read])
      BY <2>1, <3>1 DEF Respond, Goto, Body
    <3> QED
      BY <1>1, <1>2, <2>1, <2>2, <3>2 DEF Parsing, Answering
  <2>3. CASE ~Asks
    <3>1. pc' = "resolver" /\ response' = response
      BY <1>5, <2>3 DEF Decide, Asks, Read, Goto
    <3> QED
      BY <1>1, <1>2, <2>1, <2>3, <3>1 DEF Parsing, Answering, NoResponse
  <2> QED
    BY <2>2, <2>3
<1>6. CASE Resolve
  <2>1. pc = "resolver" /\ Read = query.count /\ response = NoResponse
    BY <1>6 DEF Resolve, Respond, Fail, Goto, Parsing, Answering
  <2>2. /\ pc' \in {"answered", "fail"} /\ response'.kind # "no data"
        /\ pc' = "fail" => response' = NoResponse
    <3>1. CASE Respond("resolver", "resolver", <<>>)
      BY <3>1 DEF Respond, Goto
    <3>2. CASE Fail("resolver")
      BY <2>1, <3>2 DEF Fail, Goto, NoResponse
    <3> QED
      BY <1>6, <3>1, <3>2 DEF Resolve
  <2> QED
    BY <1>1, <1>2, <2>1, <2>2 DEF Parsing, Answering
<1>7. CASE Refuse
  <2>1. pc' = "answered" /\ response'.kind # "no data"
    <3>1. CASE Respond("fail", "failure", query.body)
      BY <3>1 DEF Respond, Goto
    <3>2. CASE Respond("fail", "none", <<>>)
      BY <3>2 DEF Respond, Goto
    <3> QED
      BY <1>7, <3>1, <3>2 DEF Refuse
  <2> QED
    BY <1>1, <1>2, <2>1 DEF Parsing, Answering
<1>8. CASE UNCHANGED vars
  BY <1>2, <1>8 DEF Parsing, Answering, vars
<1> QED
  BY <1>3, <1>4, <1>5, <1>6, <1>7, <1>8

LEMMA FormatStep == TypeOK /\ FormatInv /\ [Next]_vars => FormatInv'
<1> SUFFICES ASSUME TypeOK, FormatInv, [Next]_vars, NEW ends \in Layouts(query)'
             PROVE  (Parsing(ends) /\ Answering(ends))'
  BY DEF FormatInv
<1>1. query' = query
  BY DEF Next, Exchange, Answered, vars, CheckLength, CheckCount, Name, TruncatedName,
         EndOfName, Pointer, Label, InvalidName, ReadType, Decide, Resolve, Refuse, Fail,
         Advance, Respond
<1>2. ends \in Layouts(query)
  BY <1>1
<1>3. Parsing(ends) /\ Answering(ends)
  BY <1>2 DEF FormatInv
<1> QED
  BY <1>2, <1>3, NameFollows, TypeFollows, RestFollows DEF Next, Exchange, Answered

(* For every message: what FormatInv says of how it is read holds.          *)
THEOREM FormatInvAlways == Spec => []FormatInv
<1>1. Init => FormatInv
  BY DEF Init, FormatInv, Parsing, Answering, Read, NoResponse
<1> QED
  BY <1>1, FormatStep, StaysInside, PTL DEF Spec

(* README.md, "AAAA queries return NODATA", for every message that encodes  *)
(* questions, of any number and with any names.                            *)
THEOREM NoAaaaResolved == Spec => []NoAddressOfIPv6
<1>1. FormatInv /\ TypeOK => NoAddressOfIPv6
  <2> SUFFICES ASSUME FormatInv, TypeOK, NEW ends \in Layouts(query),
                      pc = "resolver" \/ response.kind = "no data"
               PROVE  LET asks == \E i \in 1..query.count : TypesOf(query, ends)[i] = TypeAAAA
                      IN  /\ pc = "resolver" => ~asks
                          /\ response.kind = "no data" =>
                                asks /\ response.body = SubSeq(query.body, 1, ends[query.count])
    BY DEF NoAddressOfIPv6
  <2>1. Parsing(ends) /\ Answering(ends)
    BY DEF FormatInv
  <2>2. Read = query.count
    BY <2>1 DEF Parsing, Answering
  <2>3. \A i \in 1..query.count : TypesOf(query, ends)[i] = types[i]
    BY <2>1, <2>2 DEF Parsing, TypesOf, Body
  <2>4. Asks <=> \E i \in 1..query.count : TypesOf(query, ends)[i] = TypeAAAA
    BY <2>2, <2>3 DEF Asks
  <2> QED
    BY <2>1, <2>2, <2>4 DEF Answering, Body
<1> QED
  BY <1>1, FormatInvAlways, StaysInside, PTL

-----------------------------------------------------------------------------
(* What the walk accepts is encoded as the format says.                     *)

(* A name begins where nothing of it has been read.                         *)
LEMMA NameBegins ==
    ASSUME NEW body, NEW from \in Nat
    PROVE  InName(body, from, from)
<1>1. {} \in SUBSET ((LabelEnds(body) \cup {from}) \cap from..from - 1)
  OBVIOUS
<1>2. from \in {} \cup {from} /\ from <= from /\ from \in LabelEnds(body) \cup {from}
  OBVIOUS
<1>3. \A p \in {} : IsLabel(body[p + 1]) /\ LabelEnd(body, p) \in {} \cup {from}
  OBVIOUS
<1>4. \E cuts \in SUBSET ((LabelEnds(body) \cup {from}) \cap from..from - 1) :
         /\ from \in cuts \cup {from}
         /\ \A p \in cuts : IsLabel(body[p + 1]) /\ LabelEnd(body, p) \in cuts \cup {from}
  BY <1>1, <1>2, <1>3
<1> QED
  BY <1>2, <1>4 DEF InName

(* The part of a name before o, and what is at o.                           *)
LEMMA NameGoesOn ==
    ASSUME NEW body, NEW from \in Nat, NEW o \in Nat, NEW to \in Nat, InName(body, from, o),
           o < to
    PROVE  /\ (body[o + 1] = 0 /\ o + 1 = to) \/ (IsPointer(body[o + 1]) /\ o + 2 = to) =>
                 IsName(body, from, to)
           /\ IsLabel(body[o + 1]) /\ LabelEnd(body, o) = to /\ to \in LabelEnds(body) =>
                 InName(body, from, to)
<1>1. from <= o /\ o \in LabelEnds(body) \cup {from}
  BY DEF InName
<1>2. PICK cuts \in SUBSET ((LabelEnds(body) \cup {from}) \cap from..o - 1) :
         /\ from \in cuts \cup {o}
         /\ \A p \in cuts : IsLabel(body[p + 1]) /\ LabelEnd(body, p) \in cuts \cup {o}
  BY DEF InName
<1>3. PICK more : more = cuts \cup {o}
  OBVIOUS
<1>4. more \in SUBSET ((LabelEnds(body) \cup {from}) \cap from..to - 1)
  <2>1. \A p \in cuts : p \in from..to - 1 /\ p \in LabelEnds(body) \cup {from}
    BY <1>2
  <2>2. o \in from..to - 1
    BY <1>1
  <2> QED
    BY <1>1, <1>3, <2>1, <2>2
<1>5. from \in more /\ \A p \in more : p = o \/ (IsLabel(body[p + 1]) /\ LabelEnd(body, p) \in more)
  BY <1>2, <1>3
<1>6. ASSUME (body[o + 1] = 0 /\ o + 1 = to) \/ (IsPointer(body[o + 1]) /\ o + 2 = to)
      PROVE  IsName(body, from, to)
  <2>1. CutsName(more, body, from, to)
    BY <1>5, <1>6 DEF CutsName
  <2> QED
    BY <1>4, <2>1 DEF IsName
<1>7. ASSUME IsLabel(body[o + 1]), LabelEnd(body, o) = to, to \in LabelEnds(body)
      PROVE  InName(body, from, to)
  <2>1. \A p \in more : IsLabel(body[p + 1]) /\ LabelEnd(body, p) \in more \cup {to}
    BY <1>5, <1>7
  <2>2. from <= to
    BY <1>1
  <2> QED
    BY <1>4, <1>5, <1>7, <2>1, <2>2 DEF InName
<1> QED
  BY <1>6, <1>7

LEMMA NameAccepted ==
    ASSUME TypeOK, AcceptInv, Name
    PROVE  AcceptInv'
<1>1. pc = "name" /\ UNCHANGED <<query, types>>
  BY DEF Name, TruncatedName, EndOfName, Pointer, Label, InvalidName, Fail, Advance, Goto
<1>2. /\ query.header /\ query.count \in 1..MaxQuestions /\ Read < query.count
      /\ Read' = Read /\ Body' = Body
  BY <1>1 DEF AcceptInv, Read, Body
<1>3. PICK ends \in [0..Read -> 0..Len(Body)] : Accepted(ends)
  BY <1>1 DEF AcceptInv
<1>4. PICK from : from = ends[Read]
  OBVIOUS
<1>5. /\ Read \in Nat /\ Len(Body) \in Nat /\ offset \in 0..Len(Body) /\ from \in Nat
      /\ Body \in Seq(Byte)
  <2>1. Read \in Nat /\ Len(Body) \in Nat /\ offset \in 0..Len(Body) /\ Body \in Seq(Byte)
    BY QueryType DEF TypeOK, Body, Read
  <2>2. ends[Read] \in 0..Len(Body)
    BY <1>3, <2>1
  <2> QED
    BY <1>4, <2>1, <2>2
<1>6. InName(Body, from, offset)
  BY <1>1, <1>3, <1>4 DEF Accepted
<1>7. CASE inside
  <2>1. offset < Len(Body) /\ At(offset) \in Byte /\ At(offset) = Body[offset + 1]
    BY <1>5, <1>7, BytesOfBody DEF inside, At, Body
  <2>2. ASSUME pc' = "type", IsName(Body, from, offset')
        PROVE  AcceptInv'
    <3>1. Accepted(ends)'
      BY <1>1, <1>2, <1>3, <1>4, <2>2 DEF Accepted
    <3> QED
      BY <1>1, <1>2, <1>3, <2>2, <3>1 DEF AcceptInv
  <2>3. CASE EndOfName
    <3>1. pc' = "type" /\ offset' = offset + 1 /\ Body[offset + 1] = 0
      BY <2>1, <2>3 DEF EndOfName, Advance, Goto
    <3>2. IsName(Body, from, offset')
      BY <1>5, <1>6, <3>1, NameGoesOn
    <3> QED
      BY <2>2, <3>1, <3>2
  <2>4. CASE Pointer
    <3>1. CASE offset + 1 < Len(query.body)
      <4>1. pc' = "type" /\ offset' = offset + 2 /\ IsPointer(Body[offset + 1])
        BY <2>1, <2>4, <3>1 DEF Pointer, Advance, Goto
      <4>2. IsName(Body, from, offset')
        BY <1>5, <1>6, <4>1, NameGoesOn
      <4> QED
        BY <2>2, <4>1, <4>2
    <3>2. CASE ~(offset + 1 < Len(query.body))
      BY <2>4, <3>2 DEF Pointer, Fail, Goto, AcceptInv
    <3> QED
      BY <3>1, <3>2
  <2>5. CASE Label
    <3>1. CASE offset + 1 + At(offset) <= Len(query.body)
      <4>1. /\ pc' = "name" /\ offset' = offset + (1 + At(offset)) /\ IsLabel(Body[offset + 1])
        BY <2>1, <2>5, <3>1 DEF Label, Advance, Goto
      <4>2. LabelEnd(Body, offset) = offset' /\ offset' \in Nat /\ offset < offset'
        <5>1. At(offset) \in Nat /\ offset \in Nat
          BY <1>5, <2>1 DEF Byte
        <5>2. LabelEnd(Body, offset) = offset + 1 + At(offset)
          BY <2>1 DEF LabelEnd
        <5> QED
          BY <4>1, <5>1, <5>2
      <4>3. offset' \in LabelEnds(Body)
        BY <1>5, <2>1, <4>1, <4>2 DEF LabelEnds
      <4>4. InName(Body, from, offset')
        BY <1>5, <1>6, <4>1, <4>2, <4>3, NameGoesOn
      <4>5. Accepted(ends)'
        BY <1>1, <1>2, <1>3, <1>4, <4>1, <4>4 DEF Accepted
      <4> QED
        BY <1>1, <1>2, <1>3, <4>1, <4>5 DEF AcceptInv
    <3>2. CASE ~(offset + 1 + At(offset) <= Len(query.body))
      BY <2>5, <3>2 DEF Label, Fail, Goto, AcceptInv
    <3> QED
      BY <3>1, <3>2
  <2>6. CASE InvalidName
    BY <2>6 DEF InvalidName, Fail, Goto, AcceptInv
  <2>7. CASE TruncatedName
    BY <2>7 DEF TruncatedName, Fail, Goto, AcceptInv
  <2> QED
    BY <2>3, <2>4, <2>5, <2>6, <2>7 DEF Name
<1>8. CASE ~inside
  <2>1. TruncatedName
    BY <1>8 DEF Name, EndOfName, Pointer, Label, InvalidName
  <2> QED
    BY <2>1 DEF TruncatedName, Fail, Goto, AcceptInv
<1> QED
  BY <1>7, <1>8

LEMMA TypeAccepted ==
    ASSUME TypeOK, TypeOK', AcceptInv, ReadType
    PROVE  AcceptInv'
<1>1. CASE offset + 4 > Len(query.body)
  BY <1>1 DEF ReadType, Fail, Goto, AcceptInv
<1>2. CASE ~(offset + 4 > Len(query.body))
  <2>1. /\ pc = "type" /\ query' = query /\ types' = Append(types, typeAt)
        /\ offset' = offset + 4
        /\ pc' = IF Len(types) + 1 = query.count THEN "decide" ELSE "name"
    BY <1>2 DEF ReadType, Goto
  <2>2. /\ query.header /\ query.count \in 1..MaxQuestions /\ Read < query.count
        /\ Body' = Body
    BY <2>1 DEF AcceptInv, Body
  <2>3. PICK ends \in [0..Read -> 0..Len(Body)] : Accepted(ends)
    BY <2>1 DEF AcceptInv
  <2>4. /\ Read \in Nat /\ Len(Body) \in Nat /\ offset \in 0..Len(Body)
        /\ offset' \in 0..Len(Body) /\ query.count \in Nat
    BY <1>2, <2>1, QueryType DEF TypeOK, Body, Read
  <2>5. PICK n : n = Read + 1
    OBVIOUS
  <2>6. PICK e : e = [i \in 0..n |-> IF i = n THEN offset' ELSE ends[i]]
    OBVIOUS
  <2>7. /\ e \in [0..n -> 0..Len(Body)] /\ e[n] = offset'
        /\ \A i \in 0..Read : e[i] = ends[i]
    BY <2>3, <2>4, <2>5, <2>6
  <2>8. /\ Read' = n /\ types'[n] = typeAt
        /\ \A j \in 1..Read : types'[j] = types[j]
    BY <2>1, <2>5 DEF Read, TypeOK
  <2>9. typeAt = TypeAt(Body, e[n] - 4)
    <3>1. offset + 1 + 1 = offset + 2 /\ e[n] - 4 = offset
      BY <2>1, <2>4, <2>7
    <3> QED
      BY <3>1 DEF typeAt, TypeAt, At, Body
  <2>10. e[0] = 0
    <3>1. 0 \in 0..Read
      BY <2>4
    <3> QED
      BY <2>3, <2>7, <3>1 DEF Accepted
  <2>11. ASSUME NEW i \in 1..n
         PROVE  IsName(Body, e[i - 1], e[i] - 4) /\ types'[i] = TypeAt(Body, e[i] - 4)
    <3>1. CASE i = n
      <4>1. i - 1 = Read /\ e[i - 1] = ends[Read] /\ e[i] - 4 = offset
        BY <2>1, <2>4, <2>5, <2>7, <3>1
      <4>2. IsName(Body, ends[Read], offset)
        BY <2>1, <2>3 DEF Accepted
      <4> QED
        BY <2>8, <2>9, <3>1, <4>1, <4>2
    <3>2. CASE i # n
      <4>1. i \in 1..Read /\ i \in 0..Read /\ i - 1 \in 0..Read
        BY <2>4, <2>5, <3>2
      <4>2. e[i - 1] = ends[i - 1] /\ e[i] = ends[i] /\ types'[i] = types[i]
        BY <2>7, <2>8, <4>1
      <4> QED
        BY <2>3, <4>1, <4>2 DEF Accepted
    <3> QED
      BY <3>1, <3>2
  <2>12. InName(Body, e[n], offset')
    BY <2>4, <2>7, NameBegins
  <2>13. pc' \in {"decide", "name"}
    BY <2>1
  <2>14. Accepted(e)'
    BY <2>2, <2>7, <2>8, <2>10, <2>11, <2>12, <2>13 DEF Accepted
  <2>15. /\ pc' = "name" => Read' < query.count
         /\ pc' = "decide" => Read' = query.count
    BY <2>1, <2>2, <2>4, <2>5, <2>8 DEF Read
  <2> QED
    BY <2>1, <2>2, <2>7, <2>8, <2>13, <2>14, <2>15 DEF AcceptInv
<1> QED
  BY <1>1, <1>2

LEMMA RestAccepted ==
    ASSUME TypeOK, AcceptInv,
           CheckLength \/ CheckCount \/ Decide \/ Resolve \/ Refuse \/ UNCHANGED vars
    PROVE  AcceptInv'
<1>1. /\ UNCHANGED <<query, types, offset>>
      /\ Read' = Read /\ Body' = Body
  BY DEF CheckLength, CheckCount, Decide, Resolve, Refuse, Fail, Respond, Goto, vars, Read, Body
<1>2. CASE CheckLength
  <2>1. CASE query.header
    <3>1. pc = "length" /\ pc' = "count"
      BY <1>2, <2>1 DEF CheckLength, Goto
    <3>2. PICK ends \in [0..Read -> 0..Len(Body)] : Accepted(ends)
      BY <3>1 DEF AcceptInv
    <3>3. Accepted(ends)'
      BY <1>1, <3>1, <3>2 DEF Accepted
    <3> QED
      BY <1>1, <2>1, <3>1, <3>2, <3>3 DEF AcceptInv
  <2>2. CASE ~query.header
    BY <1>2, <2>2 DEF CheckLength, Fail, Goto, AcceptInv
  <2> QED
    BY <2>1, <2>2
<1>3. CASE CheckCount
  <2>1. CASE query.count \in 1..MaxQuestions
    <3>1. pc = "count" /\ pc' = "name"
      BY <1>3, <2>1 DEF CheckCount, Goto
    <3>2. query.header /\ Read = 0 /\ offset = 0
      BY <3>1 DEF AcceptInv
    <3>3. PICK ends \in [0..Read -> 0..Len(Body)] : Accepted(ends)
      BY <3>1 DEF AcceptInv
    <3>4. InName(Body, 0, 0) /\ ends[0] = 0
      BY <3>3, NameBegins DEF Accepted
    <3>5. Accepted(ends)'
      BY <1>1, <3>1, <3>2, <3>3, <3>4 DEF Accepted
    <3>6. 0 < query.count
      <4>1. MaxQuestions \in Nat /\ query.count \in Nat
        BY QueryType DEF MaxQuestions, TypeOK
      <4> QED
        BY <2>1, <4>1
    <3> QED
      BY <1>1, <2>1, <3>1, <3>2, <3>3, <3>5, <3>6 DEF AcceptInv
  <2>2. CASE ~(query.count \in 1..MaxQuestions)
    BY <1>3, <2>2 DEF CheckCount, Fail, Goto, AcceptInv
  <2> QED
    BY <2>1, <2>2
<1>4. CASE Decide \/ Resolve \/ Refuse
  <2>1. pc' \in {"answered", "resolver", "fail"}
    BY <1>4 DEF Decide, Resolve, Refuse, Respond, Fail, Goto
  <2> QED
    BY <2>1 DEF AcceptInv
<1>5. CASE UNCHANGED vars
  BY <1>1, <1>5 DEF AcceptInv, Accepted, vars
<1> QED
  BY <1>2, <1>3, <1>4, <1>5

(* For every message: what has been accepted of it is encoded.              *)
THEOREM AcceptInvAlways == Spec => []AcceptInv
<1>1. Init => AcceptInv
  <2> SUFFICES ASSUME Init
               PROVE  AcceptInv
    OBVIOUS
  <2>1. pc = "length" /\ offset = 0 /\ Read = 0
    BY DEF Init, Read
  <2>2. Len(Body) \in Nat
    BY QueryType DEF Init, Body
  <2>3. PICK e : e = [i \in 0..0 |-> 0]
    OBVIOUS
  <2>4. e \in [0..0 -> 0..Len(Body)] /\ e[0] = 0
    BY <2>2, <2>3
  <2>5. Accepted(e)
    BY <2>1, <2>4 DEF Accepted
  <2> QED
    BY <2>1, <2>4, <2>5 DEF AcceptInv
<1>2. TypeOK /\ TypeOK' /\ AcceptInv /\ [Next]_vars => AcceptInv'
  BY NameAccepted, TypeAccepted, RestAccepted DEF Next, Exchange, Answered
<1> QED
  BY <1>1, <1>2, StaysInside, PTL DEF Spec

(* For every message: parseDNSQuestions accepts it exactly when it begins   *)
(* with as many encoded questions as its header says; it then has their     *)
(* types and their end.                                                    *)
THEOREM AcceptsTheFormat == Spec => []ParsesTheFormat
<1>1. ASSUME TypeOK, FormatInv, AcceptInv
      PROVE  ParsesTheFormat
  <2>1. ASSUME pc = "fail", NEW ends \in Layouts(query)
        PROVE  Len(types) = query.count
    BY <1>1, <2>1 DEF FormatInv, Parsing, Read
  <2>2. ASSUME pc = "decide"
        PROVE  \E ends \in Layouts(query) :
                  types = TypesOf(query, ends) /\ offset = ends[query.count]
    <3>1. query.header /\ query.count \in 1..MaxQuestions /\ Read = query.count
      BY <1>1, <2>2 DEF AcceptInv
    <3>2. PICK ends \in [0..Read -> 0..Len(Body)] : Accepted(ends)
      BY <1>1, <2>2 DEF AcceptInv
    <3>3. ends \in Layouts(query)
      BY <3>1, <3>2 DEF Layouts, Accepted, Body
    <3>4. offset = ends[query.count]
      BY <2>2, <3>1, <3>2 DEF Accepted
    <3>5. types = [i \in 1..Read |-> types[i]]
      BY <1>1 DEF TypeOK, Read
    <3>6. \A i \in 1..Read : types[i] = TypeAt(query.body, ends[i] - 4)
      BY <3>2 DEF Accepted, Body
    <3>7. types = TypesOf(query, ends)
      BY <3>1, <3>5, <3>6 DEF TypesOf
    <3> QED
      BY <3>3, <3>4, <3>7
  <2> QED
    BY <2>1, <2>2 DEF ParsesTheFormat
<1> QED
  BY <1>1, StaysInside, FormatInvAlways, AcceptInvAlways, PTL

=============================================================================
