---------------------------- MODULE MCDnsQuestions ----------------------------
(* Queries made of up to two questions, with labels, zero ends and           *)
(* compression pointers, cut off at every byte; labels with a reserved      *)
(* length; and counts that do not match.                                   *)
EXTENDS DnsQuestions

LOCAL INSTANCE SequencesExt

(* The bytes of a label may look like a length, an end or a pointer. *)
Labels == {<<>>, <<1, 0>>, <<2, 192, 28>>}
Ends == {<<0>>, <<192, 12>>}
Names == {labels \o end : labels \in Labels, end \in Ends}

Questions == [name : Names, type : {1, TypeAAAA}]

Encoded(q) == q.name \o <<0, q.type, 0, 1>>

QuestionLists == UNION {[1..n -> Questions] : n \in 0..2}

Section(questions) == FlattenSeq([i \in DOMAIN questions |-> Encoded(questions[i])])

Sections == {Section(qs) : qs \in QuestionLists}

(* A reserved length, a label longer than the message, an extra record. *)
Tails == {<<64, 0>>, <<128>>, <<63, 1>>, <<0, 0, 41>>}

Bodies ==
    UNION {Prefixes(s) : s \in Sections}
    \cup {s \o t : s \in {Section(qs) : qs \in {q \in QuestionLists : Len(q) < 2}}, t \in Tails}

BoundedQueries ==
    [header : {TRUE}, count : {0, 1, 2, 65}, body : Bodies]
    \cup {[header |-> FALSE, count |-> 0, body |-> <<>>]}

-----------------------------------------------------------------------------
(* The format of DnsQuestions admits what is encoded here, and only that.   *)
ASSUME EncodedAsFormatted ==
    \A qs \in QuestionLists \ {<<>>} :
        LET q == [header |-> TRUE, count |-> Len(qs), body |-> Section(qs)]
        IN  \E ends \in Layouts(q) :
               Layouts(q) = {ends} /\ ends[q.count] = Len(q.body)
                                   /\ TypesOf(q, ends) = [i \in DOMAIN qs |-> qs[i].type]

=============================================================================
