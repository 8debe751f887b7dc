--------------------------- MODULE ProxyLinksProofs ---------------------------
(* For credentials of any length: every parser and writer between the user   *)
(* and the engine hands on the same proxy.                                  *)
EXTENDS ProxyLinks, WellFoundedInduction, FiniteSetTheorems, TLAPS

-----------------------------------------------------------------------------
(* The first element of a sequence that passes a test, and the last.        *)

LEMMA SmallestElement ==
    ASSUME NEW T \in SUBSET Nat, T # {}
    PROVE  \E x \in T : \A y \in T : x <= y
<1> DEFINE R == OpToRel(<, Nat)
<1>1. IsWellFoundedOn(R, Nat)
  BY NatLessThanWellFounded
<1>2. \A u, v \in Nat : u < v => <<u, v>> \in R
  BY DEF OpToRel
<1> HIDE DEF R
<1>3. PICK x \in T : \A y \in T : ~ (<<y, x>> \in R)
  BY <1>1, WFMin
<1>4. \A y \in T : ~ (y < x)
  BY <1>2, <1>3
<1> QED
  BY <1>4

LEMMA FirstColon ==
    ASSUME NEW text, Len(text) \in Nat
    PROVE  /\ Colon(text) \in 0..Len(text)
           /\ Colon(text) # 0 => text[Colon(text)] = ":"
           /\ \A i \in 1..Len(text) : text[i] = ":" => Colon(text) # 0 /\ Colon(text) <= i
<1> DEFINE I == {i \in 1..Len(text) : text[i] = ":"}
<1>1. Colon(text) = IF I # {} THEN CHOOSE x \in I : \A y \in I : x <= y ELSE 0
  BY DEF Colon, SelectInSeq, Min
<1>2. I \in SUBSET Nat
  OBVIOUS
<1>3. I # {} => \E x \in I : \A y \in I : x <= y
  BY <1>2, SmallestElement
<1>4. CASE I = {}
  BY <1>1, <1>4
<1>5. CASE I # {}
  <2>1. Colon(text) \in I /\ \A y \in I : Colon(text) <= y
    BY <1>1, <1>3, <1>5
  <2> QED
    BY <2>1
<1> QED
  BY <1>4, <1>5

LEMMA OnlySign ==
    ASSUME NEW text, Len(text) \in Nat, NEW n \in 1..Len(text),
           \A i \in 1..Len(text) : text[i] = "@" <=> i = n
    PROVE  Sign(text) = n
<1>1. {i \in 1..Len(text) : text[i] = "@"} = {n}
  OBVIOUS
<1> QED
  BY <1>1 DEF Sign, SelectLastInSeq, Max

LEMMA LastSign ==
    ASSUME NEW text, Len(text) \in Nat, NEW n \in 1..Len(text), text[n] = "@",
           \A i \in 1..Len(text) : i > n => text[i] # "@"
    PROVE  Sign(text) = n
<1> DEFINE I == {i \in 1..Len(text) : text[i] = "@"}
<1>1. n \in I /\ \A i \in I : i \in Nat /\ i <= n
  OBVIOUS
<1>2. Sign(text) = CHOOSE x \in I : \A y \in I : x >= y
  BY <1>1 DEF Sign, SelectLastInSeq, Max
<1> HIDE DEF I
<1>3. \E x \in I : \A y \in I : x >= y
  BY <1>1
<1>4. Sign(text) \in I /\ \A y \in I : Sign(text) >= y
  BY <1>2, <1>3
<1>5. Sign(text) >= n /\ Sign(text) <= n /\ Sign(text) \in Nat
  BY <1>1, <1>4
<1> QED
  BY <1>5

LEMMA NoSign ==
    ASSUME NEW text, \A i \in 1..Len(text) : text[i] # "@"
    PROVE  Sign(text) = 0
<1>1. {i \in 1..Len(text) : text[i] = "@"} = {}
  OBVIOUS
<1> QED
  BY <1>1 DEF Sign, SelectLastInSeq

LEMMA OneMore ==
    ASSUME NEW S, NEW c \in Seq(S), NEW e \in S
    PROVE  /\ c \o <<e>> \in Seq(S) /\ <<e>> \in Seq(S)
           /\ Len(c \o <<e>>) = Len(c) + 1 /\ (c \o <<e>>)[Len(c) + 1] = e
           /\ \A i \in 1..Len(c) : (c \o <<e>>)[i] = c[i]
OBVIOUS

(* Two texts joined by a separator, and taken apart again.                  *)
Join(u, sep, w) == u \o <<sep>> \o w

LEMMA Joined ==
    ASSUME NEW S, NEW u \in Seq(S), NEW w \in Seq(S), NEW sep \in S,
           NEW t, t = u \o <<sep>> \o w
    PROVE  /\ t \in Seq(S) /\ Len(t) = Len(u) + 1 + Len(w)
           /\ t[Len(u) + 1] = sep
           /\ \A i \in 1..Len(u) : t[i] = u[i]
           /\ \A i \in 1..Len(w) : t[Len(u) + 1 + i] = w[i]
<1> DEFINE v == u \o <<sep>>
<1>1. /\ v \in Seq(S) /\ Len(v) = Len(u) + 1 /\ v[Len(u) + 1] = sep
      /\ \A i \in 1..Len(u) : v[i] = u[i]
  OBVIOUS
<1>2. t = v \o w
  OBVIOUS
<1> HIDE DEF v
<1>3. /\ t \in Seq(S) /\ Len(t) = Len(v) + Len(w)
      /\ \A i \in 1..Len(v) : t[i] = v[i]
      /\ \A i \in 1..Len(w) : t[Len(v) + i] = w[i]
  BY <1>1, <1>2
<1> QED
  BY <1>1, <1>3

LEMMA TakenApart ==
    ASSUME NEW S, NEW u \in Seq(S), NEW w \in Seq(S), NEW sep \in S,
           NEW t, t = u \o <<sep>> \o w
    PROVE  SubSeq(t, 1, Len(u)) = u /\ SubSeq(t, Len(u) + 2, Len(t)) = w
<1>1. /\ t \in Seq(S) /\ Len(t) = Len(u) + 1 + Len(w)
      /\ \A i \in 1..Len(u) : t[i] = u[i]
      /\ \A i \in 1..Len(w) : t[Len(u) + 1 + i] = w[i]
  BY Joined
<1>2. SubSeq(t, 1, Len(u)) = u
  BY <1>1
<1>3. SubSeq(t, Len(u) + 2, Len(t)) = w
  BY <1>1
<1> QED
  BY <1>2, <1>3

(* u and w are what stands in t before and after its place n.               *)
AreParts(t, u, n, w) ==
    /\ n = Len(u) + 1 /\ Len(t) = n + Len(w)
    /\ \A i \in 1..Len(u) : u[i] = t[i]
    /\ \A i \in 1..Len(w) : w[i] = t[n + i]

LEMMA SameText ==
    ASSUME NEW S, NEW t \in Seq(S), NEW u \in Seq(S), NEW w \in Seq(S), NEW sep \in S,
           NEW n \in Nat, AreParts(t, u, n, w), t[n] = sep
    PROVE  t = u \o <<sep>> \o w
<1> USE DEF AreParts
<1>1. PICK x : x = u \o <<sep>> \o w
  OBVIOUS
<1>2. /\ x \in Seq(S) /\ Len(x) = Len(u) + 1 + Len(w)
      /\ x[Len(u) + 1] = sep
      /\ \A i \in 1..Len(u) : x[i] = u[i]
      /\ \A i \in 1..Len(w) : x[Len(u) + 1 + i] = w[i]
  BY <1>1, Joined
<1>3. /\ Len(x) = n + Len(w) /\ x[n] = sep
      /\ \A i \in 1..Len(w) : x[n + i] = w[i]
  BY <1>2
<1>4. ASSUME NEW i \in 1..Len(t)
      PROVE  x[i] = t[i]
  <2>1. CASE i < n
    <3>1. i \in 1..Len(u)
      BY <2>1
    <3>2. x[i] = u[i] /\ u[i] = t[i]
      BY <1>2, <3>1
    <3> QED
      BY <3>2
  <2>2. CASE i = n
    BY <1>3, <2>2
  <2>3. CASE i > n
    <3>1. PICK k \in 1..Len(w) : i = n + k
      <4>1. i - n \in 1..Len(w) /\ i = n + (i - n)
        BY <2>3
      <4> QED
        BY <4>1
    <3> QED
      BY <1>3, <3>1
  <2> QED
    BY <2>1, <2>2, <2>3
<1>5. x = t
  BY <1>2, <1>3, <1>4
<1> QED
  BY <1>1, <1>5

LEMMA Associates ==
    ASSUME NEW S, NEW u \in Seq(S), NEW w \in Seq(S), NEW sep \in S
    PROVE  u \o (<<sep>> \o w) = Join(u, sep, w)
<1>1. PICK v \in Seq(S) : v = <<sep>> \o w
  <2>1. <<sep>> \o w \in Seq(S)
    OBVIOUS
  <2> QED
    BY <2>1
<1>2. Len(v) = 1 + Len(w) /\ v[1] = sep /\ \A i \in 1..Len(w) : w[i] = v[1 + i]
  BY <1>1
<1>3. PICK t \in Seq(S) : t = u \o v
  <2>1. u \o v \in Seq(S)
    OBVIOUS
  <2> QED
    BY <2>1
<1>4. /\ Len(t) = Len(u) + Len(v)
      /\ \A i \in 1..Len(u) : u[i] = t[i]
      /\ \A i \in 1..Len(v) : v[i] = t[Len(u) + i]
  BY <1>3
<1>5. PICK n \in Nat : n = Len(u) + 1
  OBVIOUS
<1>6. Len(t) = n + Len(w) /\ t[n] = sep
  BY <1>2, <1>4, <1>5
<1>7. ASSUME NEW i \in 1..Len(w)
      PROVE  w[i] = t[n + i]
  <2>1. PICK k \in 1..Len(v) : k = 1 + i
    BY <1>2
  <2>2. w[i] = v[k] /\ v[k] = t[Len(u) + k]
    BY <1>2, <1>4, <2>1
  <2>3. Len(u) + k = n + i
    BY <1>5, <2>1
  <2> QED
    BY <2>2, <2>3
<1>8. AreParts(t, u, n, w)
  BY <1>4, <1>5, <1>6, <1>7 DEF AreParts
<1> QED
  BY <1>1, <1>3, <1>6, <1>8, SameText DEF Join

LEMMA PutBack ==
    ASSUME NEW S, NEW t \in Seq(S), NEW n \in 1..Len(t)
    PROVE  t = SubSeq(t, 1, n - 1) \o <<t[n]>> \o SubSeq(t, n + 1, Len(t))
<1>1. PICK u : u = SubSeq(t, 1, n - 1)
  OBVIOUS
<1>2. PICK w : w = SubSeq(t, n + 1, Len(t))
  OBVIOUS
<1>3. PICK sep \in S : sep = t[n]
  OBVIOUS
<1>4. u \in Seq(S) /\ n = Len(u) + 1 /\ \A i \in 1..Len(u) : u[i] = t[i]
  BY <1>1
<1>5. w \in Seq(S) /\ Len(t) = n + Len(w) /\ \A i \in 1..Len(w) : w[i] = t[n + i]
  BY <1>2
<1>6. n \in Nat /\ t[n] = sep /\ AreParts(t, u, n, w)
  BY <1>3, <1>4, <1>5 DEF AreParts
<1>7. t = u \o <<sep>> \o w
  BY <1>4, <1>5, <1>6, SameText
<1> QED
  BY <1>1, <1>2, <1>3, <1>7

-----------------------------------------------------------------------------
(* Escaping, and back.                                                      *)

Clean == {"a", ":", "@"}
Coded == {"a", "%3A", "%40"}
Given == {"a", ":", "@", "%3A", "%40"}

LEMMA MadeOf ==
    ASSUME NEW S, NEW n \in Nat, NEW f, f \in [1..n -> S]
    PROVE  f \in Seq(S) /\ Len(f) = n
OBVIOUS

LEMMA EncodeText ==
    ASSUME NEW t \in Seq(Clean)
    PROVE  Encode(t) \in Seq(Coded) /\ Len(Encode(t)) = Len(t) /\ Decode(Encode(t)) = t
<1>1. DOMAIN t = 1..Len(t) /\ Len(t) \in Nat /\ \A i \in 1..Len(t) : t[i] \in Clean
  OBVIOUS
<1>2. Encode(t) \in [1..Len(t) -> Coded]
  BY <1>1 DEF Encode, Clean, Coded
<1>3. Encode(t) \in Seq(Coded) /\ Len(Encode(t)) = Len(t)
  BY <1>1, <1>2, MadeOf
<1>4. \A i \in 1..Len(t) : Decode(Encode(t))[i] = t[i]
  BY <1>1 DEF Encode, Decode, Clean
<1>5. DOMAIN Decode(Encode(t)) = 1..Len(t)
  BY <1>1 DEF Encode, Decode
<1>6. Decode(Encode(t)) \in [1..Len(t) -> Clean]
  BY <1>1, <1>4, <1>5 DEF Decode
<1>7. Decode(Encode(t)) = t
  BY <1>1, <1>4, <1>6
<1> QED
  BY <1>3, <1>7

LEMMA DecodeText ==
    ASSUME NEW t \in Seq(Given)
    PROVE  /\ Decode(t) \in Seq(Clean) /\ Len(Decode(t)) = Len(t)
           /\ \A i \in 1..Len(t) : Decode(t)[i] = ":" <=> t[i] \in {":", "%3A"}
<1>1. DOMAIN t = 1..Len(t) /\ Len(t) \in Nat /\ \A i \in 1..Len(t) : t[i] \in Given
  OBVIOUS
<1>2. Decode(t) \in [1..Len(t) -> Clean]
  BY <1>1 DEF Decode, Clean, Given
<1>3. Decode(t) \in Seq(Clean) /\ Len(Decode(t)) = Len(t)
  BY <1>1, <1>2, MadeOf
<1>4. \A i \in 1..Len(t) : Decode(t)[i] = ":" <=> t[i] \in {":", "%3A"}
  BY <1>1 DEF Decode, Given
<1> QED
  BY <1>3, <1>4

LEMMA EncodeDecoded ==
    ASSUME NEW t \in Seq(Coded)
    PROVE  Encode(Decode(t)) = t
<1>1. DOMAIN t = 1..Len(t) /\ Len(t) \in Nat /\ \A i \in 1..Len(t) : t[i] \in Coded
  OBVIOUS
<1>4. \A i \in 1..Len(t) : Encode(Decode(t))[i] = t[i]
  BY <1>1 DEF Encode, Decode, Coded
<1>5. DOMAIN Encode(Decode(t)) = 1..Len(t)
  BY <1>1 DEF Encode, Decode
<1>6. Encode(Decode(t)) \in [1..Len(t) -> Coded]
  BY <1>1, <1>4, <1>5 DEF Encode
<1> QED
  BY <1>1, <1>4, <1>6

LEMMA DecodeNothing == Decode(<<>>) = <<>>
<1>1. <<>> \in Seq(Clean)
  OBVIOUS
<1>2. <<>> \in Seq(Given) /\ Len(<<>>) = 0
  OBVIOUS
<1>3. Decode(<<>>) \in Seq(Clean) /\ Len(Decode(<<>>)) = 0
  BY <1>2, DecodeText
<1> QED
  BY <1>3

-----------------------------------------------------------------------------
(* A user name and a password, at the first colon.                          *)

Lacks(u, token) == \A i \in 1..Len(u) : u[i] # token

LEMMA UserAndPassword ==
    ASSUME NEW S, NEW t \in Seq(S)
    PROVE  /\ User(t) \in Seq(S) /\ Password(t) \in Seq(S)
           /\ Lacks(User(t), ":")
           /\ Colon(t) = 0 => User(t) = t /\ Password(t) = <<>>
           /\ Colon(t) # 0 => t = User(t) \o <<":">> \o Password(t)
<1>0. Len(t) \in Nat
  OBVIOUS
<1>1. /\ Colon(t) \in 0..Len(t)
      /\ Colon(t) # 0 => t[Colon(t)] = ":"
      /\ \A i \in 1..Len(t) : t[i] = ":" => Colon(t) # 0 /\ Colon(t) <= i
  BY <1>0, FirstColon
<1>2. PICK n : n = Colon(t)
  OBVIOUS
<1>3. CASE n = 0
  BY <1>1, <1>2, <1>3 DEF User, Password, Lacks
<1>4. CASE n # 0
  <2>1. n \in 1..Len(t) /\ t[n] = ":" /\ \A i \in 1..n - 1 : t[i] # ":"
    BY <1>0, <1>1, <1>2, <1>4
  <2>2. User(t) = SubSeq(t, 1, n - 1) /\ Password(t) = SubSeq(t, n + 1, Len(t))
    BY <1>2, <1>4 DEF User, Password
  <2>3. t = SubSeq(t, 1, n - 1) \o <<t[n]>> \o SubSeq(t, n + 1, Len(t))
    BY <2>1, PutBack
  <2>4. SubSeq(t, 1, n - 1) \in Seq(S) /\ SubSeq(t, n + 1, Len(t)) \in Seq(S)
    BY <2>1
  <2>5. \A i \in 1..Len(SubSeq(t, 1, n - 1)) : SubSeq(t, 1, n - 1)[i] # ":"
    BY <2>1
  <2> QED
    BY <1>2, <1>4, <2>1, <2>2, <2>3, <2>4, <2>5 DEF Lacks
<1> QED
  BY <1>3, <1>4

LEMMA SplitAgain ==
    ASSUME NEW S, ":" \in S, NEW u \in Seq(S), NEW w \in Seq(S),
           Lacks(u, ":"),
           NEW t, t = Join(u, ":", w)
    PROVE  t \in Seq(S) /\ Colon(t) # 0 /\ User(t) = u /\ Password(t) = w
<1>1. /\ t \in Seq(S) /\ Len(t) = Len(u) + 1 + Len(w)
      /\ t[Len(u) + 1] = ":"
      /\ \A i \in 1..Len(u) : t[i] = u[i]
  BY Joined DEF Join
<1>2. SubSeq(t, 1, Len(u)) = u /\ SubSeq(t, Len(u) + 2, Len(t)) = w
  BY TakenApart DEF Join
<1>3. Len(t) \in Nat
  BY <1>1
<1>4. /\ Colon(t) \in 0..Len(t)
      /\ Colon(t) # 0 => t[Colon(t)] = ":"
      /\ \A i \in 1..Len(t) : t[i] = ":" => Colon(t) # 0 /\ Colon(t) <= i
  BY <1>3, FirstColon
<1>5. Colon(t) = Len(u) + 1
  BY <1>1, <1>4 DEF Lacks
<1>6. Colon(t) - 1 = Len(u) /\ Colon(t) + 1 = Len(u) + 2 /\ Colon(t) # 0
  BY <1>5
<1>7. User(t) = SubSeq(t, 1, Len(u)) /\ Password(t) = SubSeq(t, Len(u) + 2, Len(t))
  BY <1>6 DEF User, Password
<1> QED
  BY <1>1, <1>2, <1>6, <1>7

LEMMA NoColon ==
    ASSUME NEW S, NEW t \in Seq(S), Lacks(t, ":")
    PROVE  Colon(t) = 0 /\ User(t) = t /\ Password(t) = <<>>
<1>1. Len(t) \in Nat
  OBVIOUS
<1>2. /\ Colon(t) \in 0..Len(t)
      /\ Colon(t) # 0 => t[Colon(t)] = ":"
  BY <1>1, FirstColon
<1> QED
  BY <1>1, <1>2 DEF User, Password, Lacks

(* The user information of an authority ends at its only "@".               *)
LEMMA SignSplits ==
    ASSUME NEW S, "@" \in S, NEW u \in Seq(S), NEW w \in Seq(S),
           Lacks(u, "@"), Lacks(w, "@"),
           NEW t, t = Join(u, "@", w)
    PROVE  SubSeq(t, 1, Sign(t) - 1) = u /\ SubSeq(t, Sign(t) + 1, Len(t)) = w
<1>1. /\ t \in Seq(S) /\ Len(t) = Len(u) + 1 + Len(w)
      /\ t[Len(u) + 1] = "@"
      /\ \A i \in 1..Len(u) : t[i] = u[i]
      /\ \A i \in 1..Len(w) : t[Len(u) + 1 + i] = w[i]
  BY Joined DEF Join
<1>2. SubSeq(t, 1, Len(u)) = u /\ SubSeq(t, Len(u) + 2, Len(t)) = w
  BY TakenApart DEF Join
<1>3. PICK n \in 1..Len(t) : n = Len(u) + 1
  BY <1>1
<1>4. /\ \A i \in 1..Len(u) : t[i] # "@"
      /\ \A i \in 1..Len(w) : t[Len(u) + 1 + i] # "@"
  BY <1>1 DEF Lacks
<1>5. \A i \in 1..Len(t) : t[i] = "@" <=> i = n
  <2> SUFFICES ASSUME NEW i \in 1..Len(t), i # n
               PROVE  t[i] # "@"
    BY <1>1, <1>3
  <2>1. CASE i < n
    BY <1>3, <1>4, <2>1
  <2>2. CASE i > n
    <3>1. i - n \in 1..Len(w) /\ i = Len(u) + 1 + (i - n)
      BY <1>1, <1>3, <2>2
    <3> QED
      BY <1>4, <3>1
  <2> QED
    BY <2>1, <2>2
<1>6. Sign(t) = n
  <2>1. Len(t) \in Nat
    BY <1>1
  <2> QED
    BY <1>5, <2>1, OnlySign
<1>7. Sign(t) - 1 = Len(u) /\ Sign(t) + 1 = Len(u) + 2
  BY <1>3, <1>6
<1> QED
  BY <1>2, <1>7

-----------------------------------------------------------------------------
(* What URL writes, ParseURL reads back.                                    *)

LEMMA SettingsFields ==
    ASSUME NEW protocol, NEW host, NEW port, NEW user, NEW password, NEW s,
           s = Settings(protocol, host, port, user, password)
    PROVE  /\ s.protocol = protocol /\ s.host = host /\ s.port = port
           /\ s.user = user /\ s.password = password
           /\ s = Settings(s.protocol, s.host, s.port, s.user, s.password)
BY DEF Settings

Hosts == {"name", "v6"} \cup OddHosts

Sound(s) ==
    /\ s = Settings(s.protocol, s.host, s.port, s.user, s.password)
    /\ s.host \in Hosts
    /\ s.user \in Seq(Clean) /\ s.password \in Seq(Clean)
    /\ Valid(s)

LEMMA ValidPasswords ==
    ASSUME NEW s, Valid(s)
    PROVE  /\ s.user = <<>> => s.password = <<>>
           /\ s.protocol = "socks4" => s.password = <<>>
BY ONLY Valid(s) DEF Valid

(* The credentials as they are escaped: no "@" is left in them.             *)
LEMMA Escaped ==
    ASSUME NEW s, Sound(s), s.user # <<>>
    PROVE  \E x \in Seq(Coded \cup {":"}) :
              /\ Credentials(s) = x \o <<"@">>
              /\ Decode(User(x)) = s.user /\ Decode(Password(x)) = s.password
<1>1. s.user \in Seq(Clean) /\ s.password \in Seq(Clean)
  BY DEF Sound
<1>2. PICK u \in Seq(Coded) : u = Encode(s.user) /\ Decode(u) = s.user
  BY <1>1, EncodeText
<1>3. PICK w \in Seq(Coded) : w = Encode(s.password) /\ Decode(w) = s.password
  BY <1>1, EncodeText
<1>4. u \in Seq(Coded \cup {":"}) /\ w \in Seq(Coded \cup {":"})
  OBVIOUS
<1>5. Lacks(u, ":")
  BY DEF Coded, Lacks
<1>6. CASE s.protocol = "socks4"
  <2>1. Credentials(s) = u \o <<"@">>
    BY <1>2, <1>6 DEF Credentials
  <2>2. User(u) = u /\ Password(u) = <<>>
    BY <1>5, NoColon
  <2>3. s.password = <<>>
    <3>1. Valid(s)
      BY DEF Sound
    <3> QED
      BY <1>6, <3>1, ValidPasswords
  <2>4. Decode(<<>>) = <<>>
    BY DecodeNothing
  <2> QED
    BY <1>2, <1>4, <2>1, <2>2, <2>3, <2>4
<1>7. CASE s.protocol # "socks4"
  <2>1. PICK x : x = u \o <<":">> \o w
    OBVIOUS
  <2>2. Credentials(s) = x \o <<"@">>
    BY <1>2, <1>3, <1>7, <2>1 DEF Credentials
  <2>3. x \in Seq(Coded \cup {":"}) /\ User(x) = u /\ Password(x) = w
    <3>1. PICK S : S = Coded \cup {":"}
      OBVIOUS
    <3>2. ":" \in S /\ u \in Seq(S) /\ w \in Seq(S)
      BY <1>4, <3>1
    <3>3. x \in Seq(S) /\ User(x) = u /\ Password(x) = w
      <4>1. x = Join(u, ":", w)
        BY <2>1 DEF Join
      <4> QED
        BY <1>5, <3>2, <4>1, SplitAgain
    <3> QED
      BY <3>1, <3>3
  <2> QED
    BY <1>2, <1>3, <2>2, <2>3
<1> QED
  BY <1>6, <1>7

(* Whatever the credentials are, the host is the token behind them.         *)
LEMMA SplitAuthority ==
    ASSUME NEW s, Sound(s), NEW h, h # "@", NEW a, a = Credentials(s) \o <<h>>
    PROVE  LET userinfo == SubSeq(a, 1, Sign(a) - 1)
           IN  /\ SubSeq(a, Sign(a) + 1, Len(a)) = <<h>>
               /\ Decode(User(userinfo)) = s.user /\ Decode(Password(userinfo)) = s.password
<1> DEFINE sign == Sign(a)
           userinfo == SubSeq(a, 1, sign - 1)
           host == SubSeq(a, sign + 1, Len(a))
<1>1. /\ host = <<h>>
      /\ Decode(User(userinfo)) = s.user /\ Decode(Password(userinfo)) = s.password
  <2>1. CASE s.user = <<>>
    <3>1. a = <<h>> /\ Len(a) = 1 /\ s.password = <<>>
      <4>1. Valid(s)
        BY DEF Sound
      <4>4. Credentials(s) = <<>>
        BY ONLY <2>1 DEF Credentials
      <4>2. s.password = <<>>
        BY <2>1, <4>1, ValidPasswords
      <4>3. a = <<h>>
        BY <4>4
      <4> QED
        BY <4>2, <4>3
    <3>2. sign = 0
      <4>1. \A i \in 1..Len(<<h>>) : <<h>>[i] # "@"
        OBVIOUS
      <4> QED
        BY <3>1, <4>1, NoSign
    <3>3. userinfo = <<>> /\ host = a
      <4> HIDE DEF sign
      <4>1. sign - 1 = -1 /\ sign + 1 = 1
        BY <3>2
      <4>2. a \in Seq({h})
        BY ONLY <3>1
      <4>3. SubSeq(a, 1, -1) = <<>>
        BY <4>2
      <4>4. SubSeq(a, 1, Len(a)) = a
        BY <4>2
      <4> QED
        BY <4>1, <4>3, <4>4
    <3>4. Decode(User(<<>>)) = <<>> /\ Decode(Password(<<>>)) = <<>>
      <4>1. <<>> \in Seq(Clean) /\ Lacks(<<>>, ":")
        BY DEF Lacks
      <4>2. User(<<>>) = <<>> /\ Password(<<>>) = <<>>
        BY <4>1, NoColon
      <4> QED
        BY <4>2, DecodeNothing
    <3> HIDE DEF sign, userinfo, host
    <3> QED
      BY <2>1, <3>1, <3>3, <3>4
  <2>2. CASE s.user # <<>>
    <3>1. PICK x \in Seq(Coded \cup {":"}) :
             /\ Credentials(s) = x \o <<"@">>
             /\ Decode(User(x)) = s.user /\ Decode(Password(x)) = s.password
      BY <2>2, Escaped
    <3>2. PICK w : w = <<h>>
      OBVIOUS
    <3>3. PICK S : S = Coded \cup {":", "@", h}
      OBVIOUS
    <3>4. x \in Seq(S) /\ w \in Seq(S) /\ "@" \in S
      BY <3>2, <3>3
    <3>5. Lacks(x, "@")
      BY DEF Coded, Lacks
    <3>6. Lacks(w, "@")
      BY <3>2 DEF Lacks
    <3>7. a = Join(x, "@", w)
      BY <3>1, <3>2 DEF Join
    <3>8. userinfo = x /\ host = w
      BY ONLY <3>4, <3>5, <3>6, <3>7, SignSplits
    <3> HIDE DEF sign, userinfo, host
    <3> QED
      BY <3>1, <3>2, <3>8
  <2> QED
    BY <2>1, <2>2
<1> QED
  BY <1>1

(* Platform p writes host h as x, which is read back as h, or refused.      *)
HostIs(p, h, x) ==
    /\ HostTokens(p, h) = <<x>> /\ x # "@"
    /\ h \notin Misread(p) => ParseHost(<<x>>) \in {{}, {h}}
    /\ h \notin Misread(p) \cup RefusedLate(p) =>
          ParseHost(<<x>>) = {h} /\ h \in {"name", "v6", "v6%x"}
    /\ h \in Misread(p) => ParseHost(<<x>>) # {}

OneToken(p, h) == ~(p = "android" /\ h = "a@name")

LEMMA HostBack ==
    ASSUME NEW p \in Platforms, NEW h \in Hosts, OneToken(p, h)
    PROVE  \E x : HostIs(p, h, x)
<1> DEFINE Read == {"name", "v6", "name%25x", "name%2525x", "v6%25x"}
<1>1. \A x : ParseHost(<<x>>) = {UnescapedHost(y) : y \in {y \in Read : x = y}}
  BY DEF ParseHost
<1>2. \A x : /\ x \in Read => ParseHost(<<x>>) = {UnescapedHost(x)}
             /\ x \notin Read => ParseHost(<<x>>) = {}
  BY <1>1
<1>3. CASE p = "desktop"
  <2>1. HostTokens(p, h) = <<EscapedHost(h)>> /\ Misread(p) = {}
    BY <1>3 DEF HostTokens, Misread
  <2>2. EscapedHost(h) # "@"
    BY DEF EscapedHost, Hosts, OddHosts
  <2>3. EscapedHost(h) \in Read => UnescapedHost(EscapedHost(h)) = h
    BY DEF EscapedHost, UnescapedHost, Hosts, OddHosts
  <2>4. h \notin RefusedLate(p) => EscapedHost(h) \in Read /\ h \in {"name", "v6", "v6%x"}
    BY <1>3 DEF EscapedHost, Hosts, OddHosts, RefusedLate
  <2> HIDE DEF Read
  <2> QED
    BY <1>2, <2>1, <2>2, <2>3, <2>4 DEF HostIs
<1>4. CASE p = "android"
  <2>1. HostTokens(p, h) = <<h>> /\ h # "@"
    BY <1>4 DEF HostTokens, Hosts, OddHosts, OneToken
  <2>2. h \in Read /\ h \notin Misread(p) => UnescapedHost(h) = h
    BY <1>4 DEF UnescapedHost, Hosts, OddHosts, Misread
  <2>3. h \notin Misread(p) \cup RefusedLate(p) => h \in Read /\ h \in {"name", "v6"}
    BY <1>4 DEF Hosts, OddHosts, Misread, RefusedLate
  <2>4. h \in Misread(p) => h \in Read
    BY <1>4 DEF Misread, OneToken
  <2> HIDE DEF Read
  <2> QED
    BY <1>2, <2>1, <2>2, <2>3, <2>4 DEF HostIs
<1> QED
  BY <1>3, <1>4 DEF Platforms

LEMMA RoundTrip ==
    ASSUME NEW p \in Platforms, NEW s, Sound(s), OneToken(p, s.host)
    PROVE  ParseURL(URL(p, s)) =
             {Settings(s.protocol, h, s.port, s.user, s.password) :
                 h \in ParseHost(HostTokens(p, s.host))}
<1> DEFINE a == URL(p, s).authority
           sign == Sign(a)
           userinfo == SubSeq(a, 1, sign - 1)
           host == SubSeq(a, sign + 1, Len(a))
<1>1. PICK x : HostTokens(p, s.host) = <<x>> /\ x # "@"
  <2>1. s.host \in Hosts
    BY DEF Sound
  <2>2. PICK x : HostIs(p, s.host, x)
    BY <2>1, HostBack
  <2> QED
    BY <2>2 DEF HostIs
<1>2. a = Credentials(s) \o <<x>>
  BY <1>1 DEF URL
<1>3. ParseURL(URL(p, s)) =
        {Settings(s.protocol, h, s.port, Decode(User(userinfo)), Decode(Password(userinfo))) :
            h \in ParseHost(host)}
  BY DEF ParseURL, URL
<1> HIDE DEF a
<1>4. /\ host = <<x>>
      /\ Decode(User(userinfo)) = s.user /\ Decode(Password(userinfo)) = s.password
  BY <1>1, <1>2, SplitAuthority
<1> HIDE DEF sign, userinfo, host
<1> QED
  BY <1>1, <1>3, <1>4

LEMMA CredentialTokens ==
    ASSUME NEW s, Sound(s)
    PROVE  \E c \in Seq(Coded \cup {":", "@", "name"}) :
              c = Credentials(s) /\ (s.protocol = "socks4" => Lacks(c, ":"))
<1>1. PICK u \in Seq(Coded), w \in Seq(Coded) : u = Encode(s.user) /\ w = Encode(s.password)
  BY EncodeText DEF Sound
<1>2. PICK S : S = Coded \cup {":", "@", "name"}
  OBVIOUS
<1>3. u \in Seq(S) /\ w \in Seq(S) /\ ":" \in S /\ "@" \in S
  BY <1>2
<1>4. CASE s.user = <<>>
  <2>1. Credentials(s) = <<>>
    BY ONLY <1>4 DEF Credentials
  <2>2. <<>> \in Seq(S) /\ Lacks(<<>>, ":")
    BY DEF Lacks
  <2> QED
    BY <1>2, <2>1, <2>2
<1>5. CASE s.user # <<>> /\ s.protocol = "socks4"
  <2>1. PICK c : c = u \o <<"@">>
    OBVIOUS
  <2>2. /\ c \in Seq(S) /\ Len(c) = Len(u) + 1 /\ c[Len(u) + 1] = "@"
        /\ \A i \in 1..Len(u) : c[i] = u[i]
    BY <1>3, <2>1
  <2>3. Lacks(u, ":")
    BY DEF Coded, Lacks
  <2>4. Lacks(c, ":")
    BY <2>2, <2>3 DEF Lacks
  <2>5. c = Credentials(s)
    BY <1>1, <1>5, <2>1 DEF Credentials
  <2> QED
    BY <1>2, <2>2, <2>4, <2>5
<1>6. CASE s.user # <<>> /\ s.protocol # "socks4"
  <2>1. PICK c : c = u \o <<":">> \o w \o <<"@">>
    OBVIOUS
  <2>2. c \in Seq(S)
    BY <1>3, <2>1
  <2>3. c = Credentials(s)
    BY <1>1, <1>6, <2>1 DEF Credentials
  <2> QED
    BY <1>2, <1>6, <2>2, <2>3
<1> QED
  BY <1>4, <1>5, <1>6

(* An "@" in the host: what stands before it goes to the credentials. With  *)
(* SOCKS4 they have no colon, and so no password.                           *)
LEMMA SignMovesOn ==
    ASSUME NEW s, Sound(s), s.host = "a@name"
    PROVE  \E r \in ParseURL(URL("android", s)) :
              /\ r.protocol = s.protocol /\ r.port = s.port
              /\ s.protocol = "socks4" => r.password = <<>>
<1>1. PICK S : S = Coded \cup {":", "@", "name"}
  OBVIOUS
<1>2. PICK c \in Seq(S) : c = Credentials(s) /\ (s.protocol = "socks4" => Lacks(c, ":"))
  BY <1>1, CredentialTokens
<1>3. "a" \in S /\ "@" \in S /\ "name" \in S
  BY <1>1 DEF Coded
<1>4. PICK u \in Seq(S) : u = c \o <<"a">>
  BY <1>3, OneMore
<1>5. Len(u) = Len(c) + 1 /\ u[Len(c) + 1] = "a" /\ \A i \in 1..Len(c) : u[i] = c[i]
  BY <1>3, <1>4, OneMore
<1>6. PICK w \in Seq(S) : w = <<"name">> /\ Len(w) = 1 /\ w[1] = "name"
  <2>1. <<"name">> \in Seq(S)
    BY <1>3, OneMore
  <2>2. Len(<<"name">>) = 1 /\ <<"name">>[1] = "name"
    OBVIOUS
  <2> QED
    BY <2>1, <2>2
<1>7. PICK a : a = Join(u, "@", w)
  OBVIOUS
<1>8. URL("android", s).authority = a
  <2>1. URL("android", s).authority = c \o <<"a", "@", "name">>
    BY <1>2 DEF URL, HostTokens
  <2>2. c \o <<"a", "@", "name">> = Join(c \o <<"a">>, "@", <<"name">>)
    BY DEF Join
  <2> QED
    BY <1>4, <1>6, <1>7, <2>1, <2>2
<1>9. /\ a \in Seq(S) /\ Len(a) = Len(u) + 1 + Len(w)
      /\ a[Len(u) + 1] = "@"
      /\ \A i \in 1..Len(w) : a[Len(u) + 1 + i] = w[i]
  BY <1>3, <1>7, Joined DEF Join
<1>10. SubSeq(a, 1, Len(u)) = u /\ SubSeq(a, Len(u) + 2, Len(a)) = w
  BY <1>3, <1>7, TakenApart DEF Join
<1>11. Sign(a) = Len(u) + 1
  <2>1. PICK n \in 1..Len(a) : n = Len(u) + 1
    BY <1>6, <1>9
  <2>2. Len(a) \in Nat /\ a[n] = "@"
    BY <1>9, <2>1
  <2>3. \A i \in 1..Len(a) : i > n => a[i] # "@"
    <3>1. a[n + 1] = "name" /\ Len(a) = n + 1
      BY <1>6, <1>9, <2>1
    <3> QED
      BY <2>1, <3>1
  <2> QED
    BY <2>1, <2>2, <2>3, LastSign
<1>12. SubSeq(a, 1, Sign(a) - 1) = u /\ SubSeq(a, Sign(a) + 1, Len(a)) = w
  <2>1. Sign(a) - 1 = Len(u) /\ Sign(a) + 1 = Len(u) + 2
    BY <1>11
  <2> QED
    BY <1>10, <2>1
<1>13. "name" \in ParseHost(w)
  BY <1>6 DEF ParseHost, UnescapedHost
<1>14. PICK r : r = Settings(s.protocol, "name", s.port, Decode(User(u)), Decode(Password(u)))
  OBVIOUS
<1>15. r \in ParseURL(URL("android", s))
  BY <1>8, <1>12, <1>13, <1>14 DEF ParseURL, URL
<1>16. s.protocol = "socks4" => Decode(Password(u)) = <<>>
  <2>1. ASSUME s.protocol = "socks4"
        PROVE  Lacks(u, ":")
    BY <1>2, <1>5, <2>1 DEF Lacks
  <2> QED
    BY <2>1, NoColon, DecodeNothing
<1> QED
  BY <1>14, <1>15, <1>16, SettingsFields

-----------------------------------------------------------------------------
(* What the user gives.                                                     *)

LinkShape(g) ==
    g.kind = "link" /\ g.userinfo \in Seq(Given) /\ g.host \in {"name", "v6"}

FormShape(g) ==
    /\ g.kind = "form" /\ g.user \in Seq(Clean) /\ g.password \in Seq(Clean)
    /\ g.host \in TypedHosts \cup {"[v6]"}

LineTokens == {"a", ":", "@", "://"}

LineShape(g) ==
    /\ g.kind = "line" /\ g.protocol = "socks5" /\ g.host \in TypedHosts
    /\ g.user \in Seq(LineTokens) /\ Lacks(g.user, ":") /\ Lacks(g.user, "://")
    /\ g.password \in Seq(LineTokens)

LEMMA Bounded ==
    ASSUME NEW S, NEW n, NEW t \in BoundedSeq(S, n)
    PROVE  t \in Seq(S)
<1>1. PICK m \in 0..n : t \in [1..m -> S]
  BY DEF BoundedSeq, SeqOf
<1>2. m \in Nat
  OBVIOUS
<1> QED
  BY <1>1, <1>2, MadeOf

LEMMA TypedFields ==
    ASSUME NEW k, NEW A, NEW B, NEW C, NEW g \in Typed(k, A, B, C)
    PROVE  /\ g.kind = k /\ g.protocol \in A /\ g.host \in B
           /\ g.user \in C /\ g.password \in C
BY DEF Typed

LEMMA Shapes ==
    ASSUME NEW g \in Links \cup Forms \cup Lines
    PROVE  LinkShape(g) \/ FormShape(g) \/ LineShape(g)
<1>1. CASE g \in Links
  <2>1. \A t : t \in BoundedSeq({"a", ":", "@", "%3A", "%40"}, MaxTokens) => t \in Seq(Given)
    BY Bounded DEF Given
  <2>2. <<>> \in Seq(Given) /\ <<"a", ":", "a">> \in Seq(Given)
    BY DEF Given
  <2>3. CASE g \in CredentialLinks
    <3>1. /\ g.kind = "link" /\ g.host \in {"name"}
          /\ g.userinfo \in BoundedSeq({"a", ":", "@", "%3A", "%40"}, MaxTokens)
      BY <2>3 DEF CredentialLinks, Linked
    <3> QED
      BY <2>1, <3>1 DEF LinkShape
  <2>4. CASE g \in AddressLinks
    <3>1. /\ g.kind = "link" /\ g.host \in {"name", "v6"}
          /\ g.userinfo \in {<<>>, <<"a", ":", "a">>}
      BY <2>4 DEF AddressLinks, Linked
    <3> QED
      BY <2>2, <3>1 DEF LinkShape
  <2> QED
    BY <1>1, <2>3, <2>4 DEF Links
<1>2. CASE g \in Forms
  <2>1. \A t : t \in BoundedSeq({"a", ":", "@"}, MaxTyped) => t \in Seq(Clean)
    BY Bounded DEF Clean
  <2>2. g \in Typed("form", {"socks4", "socks5"}, TypedHosts \cup {"[v6]"},
                    BoundedSeq({"a", ":", "@"}, MaxTyped))
    BY <1>2 DEF Forms
  <2>3. /\ g.kind = "form" /\ g.host \in TypedHosts \cup {"[v6]"}
        /\ g.user \in BoundedSeq({"a", ":", "@"}, MaxTyped)
        /\ g.password \in BoundedSeq({"a", ":", "@"}, MaxTyped)
    BY <2>2, TypedFields
  <2> QED
    BY <2>1, <2>3 DEF FormShape
<1>3. CASE g \in Lines
  <2>1. \A t : t \in BoundedSeq({"a", ":", "@", "://"}, MaxTyped) => t \in Seq(LineTokens)
    BY Bounded DEF LineTokens
  <2>2. /\ g \in Typed("line", {"socks5"}, TypedHosts,
                       BoundedSeq({"a", ":", "@", "://"}, MaxTyped))
        /\ {":", "://"} \cap Range(g.user) = {}
    BY <1>3 DEF Lines
  <2>3. /\ g.kind = "line" /\ g.protocol \in {"socks5"} /\ g.host \in TypedHosts
        /\ g.user \in BoundedSeq({"a", ":", "@", "://"}, MaxTyped)
        /\ g.password \in BoundedSeq({"a", ":", "@", "://"}, MaxTyped)
    BY <2>2, TypedFields
  <2>4. g.user \in Seq(LineTokens) /\ g.password \in Seq(LineTokens)
    BY <2>1, <2>3
  <2>5. \A i \in 1..Len(g.user) : g.user[i] \in Range(g.user)
    BY <2>4 DEF Range
  <2>6. Lacks(g.user, ":") /\ Lacks(g.user, "://")
    BY <2>2, <2>5 DEF Lacks
  <2> QED
    BY <2>3, <2>4, <2>6 DEF LineShape
<1> QED
  BY <1>1, <1>2, <1>3

-----------------------------------------------------------------------------
(* What the parsers make of it.                                             *)

LEMMA SoundSettings ==
    ASSUME NEW protocol, NEW host \in Hosts, NEW port, NEW user \in Seq(Clean),
           NEW password \in Seq(Clean), NEW s,
           s = Settings(protocol, host, port, user, password), Valid(s)
    PROVE  Sound(s)
BY SettingsFields DEF Sound

LEMMA DecodedParts ==
    ASSUME NEW t \in Seq(Given)
    PROVE  /\ Decode(User(t)) \in Seq(Clean) /\ Decode(Password(t)) \in Seq(Clean)
           /\ User(Decode(t)) \in Seq(Clean) /\ Password(Decode(t)) \in Seq(Clean)
<1>1. User(t) \in Seq(Given) /\ Password(t) \in Seq(Given)
  BY UserAndPassword
<1>2. Decode(t) \in Seq(Clean)
  BY DecodeText
<1>3. User(Decode(t)) \in Seq(Clean) /\ Password(Decode(t)) \in Seq(Clean)
  BY <1>2, UserAndPassword
<1> QED
  BY <1>1, <1>3, DecodeText

LEMMA LinkIsSound ==
    ASSUME NEW p, NEW g, LinkShape(g), NEW s \in ParseLink(p, g)
    PROVE  /\ Sound(s)
           /\ s.protocol = Protocol(g.prefix) /\ s.host = g.host /\ s.port = g.port
<1> DEFINE text == IF p = "desktop" THEN g.userinfo ELSE Decode(g.userinfo)
<1>1. g.userinfo \in Seq(Given) /\ g.host \in Hosts
  BY DEF LinkShape, Hosts
<1>2. PICK u \in Seq(Clean), w \in Seq(Clean) : \E h : s \in Identified(g, u, w, h)
  <2>1. CASE p = "desktop"
    BY <1>1, <2>1, DecodedParts DEF ParseLink, DesktopLink
  <2>2. CASE p # "desktop"
    BY <1>1, <2>2, DecodedParts DEF ParseLink, AndroidLink
  <2> QED
    BY <2>1, <2>2
<1>3. s = Settings(Protocol(g.prefix), g.host, g.port, u, w) /\ Valid(s)
  BY <1>2 DEF Identified
<1>4. Sound(s)
  BY <1>1, <1>3, SoundSettings
<1> QED
  BY <1>3, <1>4, SettingsFields

LEMMA ValidHosts ==
    ASSUME NEW h \in TypedHosts \cup {"[v6]"}, NEW s, Valid(s), s.host = Stripped(h)
    PROVE  /\ s.host \in Hosts
           /\ s.host \in OddHosts => h = s.host
           /\ h \in OddHosts => s.host = h
           /\ h # "[v6]" => s.host = h
<1>1. Stripped(h) \notin {"", "name/x"}
  BY DEF Valid
<1> QED
  BY <1>1 DEF TypedHosts, Stripped, Hosts, OddHosts

LEMMA FormIsSound ==
    ASSUME NEW g, FormShape(g), Valid(Fields(g))
    PROVE  Sound(Fields(g)) /\ Fields(g).host = Stripped(g.host)
<1>1. Fields(g) = Settings(g.protocol, Stripped(g.host), g.port, g.user, g.password)
  BY DEF Fields
<1>2. Fields(g).host = Stripped(g.host)
  BY <1>1, SettingsFields
<1>3. g.host \in TypedHosts \cup {"[v6]"}
  BY DEF FormShape
<1>4. Stripped(g.host) \in Hosts
  BY <1>2, <1>3, ValidHosts
<1> QED
  BY <1>1, <1>2, <1>4, SoundSettings DEF FormShape

(* A line is taken apart where its fields were put together.                *)
LEMMA LineIsFields ==
    ASSUME NEW g, LineShape(g), NEW s \in ParseLegacy(g)
    PROVE  s = Fields(g) /\ Sound(s) /\ s.host = g.host
<1> DEFINE text == g.user \o (IF g.password = <<>> THEN <<>> ELSE <<":">> \o g.password)
<1>1. /\ g.user \in Seq(LineTokens) /\ g.password \in Seq(LineTokens)
      /\ Lacks(g.user, ":") /\ g.host \in TypedHosts /\ g.protocol = "socks5"
  BY DEF LineShape
<1>2. /\ s = Settings("socks5", g.host, g.port, User(text), Password(text))
      /\ Valid(s) /\ "://" \notin Range(text)
  BY DEF ParseLegacy
<1>3. /\ text \in Seq(LineTokens)
      /\ User(text) = g.user /\ Password(text) = g.password
  <2>1. CASE g.password = <<>>
    <3>1. text = g.user
      BY <1>1, <2>1
    <3> HIDE DEF text
    <3> QED
      BY <1>1, <2>1, <3>1, NoColon
  <2>2. CASE g.password # <<>>
    <3>2. ":" \in LineTokens
      BY DEF LineTokens
    <3>1. text = Join(g.user, ":", g.password)
      BY <1>1, <2>2, <3>2, Associates
    <3> HIDE DEF text
    <3> QED
      BY <1>1, <3>1, <3>2, SplitAgain
  <2> QED
    BY <2>1, <2>2
<1> HIDE DEF text
<1>4. Stripped(g.host) = g.host
  BY <1>1 DEF Stripped, TypedHosts, OddHosts
<1>5. s = Fields(g)
  BY <1>1, <1>2, <1>3, <1>4 DEF Fields
<1>6. Lacks(text, "://")
  BY <1>2, <1>3 DEF Lacks, Range
<1>7. text \in Seq(Clean)
  BY <1>3, <1>6 DEF Lacks, LineTokens, Clean
<1>8. User(text) \in Seq(Clean) /\ Password(text) \in Seq(Clean)
  BY <1>7, UserAndPassword
<1>9. s.host = g.host /\ g.host \in Hosts
  <2>1. s.host = g.host
    BY <1>2, SettingsFields
  <2>2. s.host \in Hosts
    BY <1>1, <1>2, <1>4, <2>1, ValidHosts
  <2> QED
    BY <2>1, <2>2
<1>10. Sound(s)
  BY <1>2, <1>8, <1>9, SoundSettings
<1> QED
  BY <1>5, <1>9, <1>10

-----------------------------------------------------------------------------
(* Without an escaped colon in the user name it is the same to split the    *)
(* credentials and unescape the parts, or to unescape them and split.       *)

LEMMA DecodeJoin ==
    ASSUME NEW u \in Seq(Given), NEW w \in Seq(Given)
    PROVE  Decode(Join(u, ":", w)) = Join(Decode(u), ":", Decode(w))
<1>1. PICK t : t = Join(u, ":", w)
  OBVIOUS
<1>2. ":" \in Given
  BY DEF Given
<1>3. /\ t \in Seq(Given) /\ Len(t) = Len(u) + 1 + Len(w)
      /\ t[Len(u) + 1] = ":"
      /\ \A i \in 1..Len(u) : t[i] = u[i]
      /\ \A i \in 1..Len(w) : t[Len(u) + 1 + i] = w[i]
  BY <1>1, <1>2, Joined DEF Join
<1>4. PICK dt \in Seq(Clean), du \in Seq(Clean), dw \in Seq(Clean) :
         /\ dt = Decode(t) /\ du = Decode(u) /\ dw = Decode(w)
         /\ Len(dt) = Len(t) /\ Len(du) = Len(u) /\ Len(dw) = Len(w)
  BY <1>3, DecodeText
<1>5. PICK n \in Nat : n = Len(u) + 1
  OBVIOUS
<1>6. \A i \in 1..Len(u) : du[i] = dt[i]
  BY <1>3, <1>4 DEF Decode
<1>7. ASSUME NEW i \in 1..Len(w)
      PROVE  dw[i] = dt[n + i]
  <2>1. PICK j \in 1..Len(t) : j = n + i
    BY <1>3, <1>5
  <2>2. t[j] = w[i]
    BY <1>3, <1>5, <2>1
  <2>3. j \in DOMAIN t /\ i \in DOMAIN w
    BY <1>3, <2>1
  <2>4. Decode(t)[j] = Decode(w)[i]
    BY <2>2, <2>3 DEF Decode
  <2> QED
    BY <1>4, <2>1, <2>4
<1>8. dt[n] = ":"
  <2>1. n \in DOMAIN t /\ t[n] = ":"
    BY <1>3, <1>5
  <2> QED
    BY <1>4, <2>1 DEF Decode
<1>9. AreParts(dt, du, n, dw)
  BY <1>3, <1>4, <1>5, <1>6, <1>7 DEF AreParts
<1>10. ":" \in Clean
  BY DEF Clean
<1>11. dt = du \o <<":">> \o dw
  BY <1>8, <1>9, <1>10, SameText
<1>12. dt = Join(du, ":", dw)
  BY <1>11 DEF Join
<1> QED
  BY <1>1, <1>4, <1>12

LEMMA DecodeThenSplit ==
    ASSUME NEW t \in Seq(Given), "%3A" \notin Range(User(t))
    PROVE  /\ User(Decode(t)) = Decode(User(t)) /\ Password(Decode(t)) = Decode(Password(t))
           /\ Colon(Decode(t)) = 0 <=> Colon(t) = 0
<1>1. /\ User(t) \in Seq(Given) /\ Password(t) \in Seq(Given) /\ Lacks(User(t), ":")
      /\ Colon(t) = 0 => User(t) = t /\ Password(t) = <<>>
      /\ Colon(t) # 0 => t = User(t) \o <<":">> \o Password(t)
  BY UserAndPassword
<1>2. Lacks(User(t), "%3A")
  BY <1>1 DEF Lacks, Range
<1>3. Decode(User(t)) \in Seq(Clean) /\ Lacks(Decode(User(t)), ":")
  <2>1. PICK u \in Seq(Given) : u = User(t)
    BY <1>1
  <2>2. Lacks(u, ":") /\ Lacks(u, "%3A")
    BY <1>1, <1>2, <2>1
  <2>3. /\ Decode(u) \in Seq(Clean) /\ Len(Decode(u)) = Len(u)
        /\ \A i \in 1..Len(u) : Decode(u)[i] = ":" <=> u[i] \in {":", "%3A"}
    BY DecodeText
  <2> QED
    BY <2>1, <2>2, <2>3 DEF Lacks
<1>4. CASE Colon(t) = 0
  BY <1>1, <1>3, <1>4, NoColon, DecodeNothing
<1>5. CASE Colon(t) # 0
  <2>1. t = Join(User(t), ":", Password(t))
    BY <1>1, <1>5 DEF Join
  <2>2. Decode(t) = Join(Decode(User(t)), ":", Decode(Password(t)))
    BY <1>1, <2>1, DecodeJoin
  <2>3. Decode(Password(t)) \in Seq(Clean) /\ ":" \in Clean
    BY DecodedParts DEF Clean
  <2>4. /\ Colon(Decode(t)) # 0
        /\ User(Decode(t)) = Decode(User(t)) /\ Password(Decode(t)) = Decode(Password(t))
    BY <1>3, <2>2, <2>3, SplitAgain
  <2> QED
    BY <1>5, <2>4
<1> QED
  BY <1>4, <1>5

(* The two parsers of links.                                                *)
LEMMA ParsersAgree ==
    ASSUME NEW g, LinkShape(g), ~ColonInUser(g), NEW s
    PROVE  /\ s \in AndroidLink(g) => s \in DesktopLink(g)
           /\ (/\ s \in DesktopLink(g)
               /\ "@" \notin Range(g.userinfo) /\ g.tail \notin {"?", "#"})
              => s \in AndroidLink(g)
<1>1. PICK t \in Seq(Given) : t = g.userinfo
  BY DEF LinkShape
<1>2. "%3A" \notin Range(User(t))
  BY <1>1 DEF ColonInUser
<1>3. /\ User(Decode(t)) = Decode(User(t)) /\ Password(Decode(t)) = Decode(Password(t))
      /\ (Colon(Decode(t)) # 0) = (Colon(t) # 0)
  BY <1>2, DecodeThenSplit
<1>4. DesktopLink(g) = {r \in Identified(g, Decode(User(t)), Decode(Password(t)), Colon(t) # 0) :
                          g.tail \in {"", "/", "?", "#"}}
  BY <1>1 DEF DesktopLink
<1>5. AndroidLink(g) = {r \in Identified(g, Decode(User(t)), Decode(Password(t)), Colon(t) # 0) :
                          g.tail \in {"", "/"} /\ "@" \notin Range(t)}
  BY <1>1, <1>3 DEF AndroidLink
<1> QED
  BY <1>1, <1>4, <1>5

(* A parser has at most one result.                                         *)
LEMMA OneResult ==
    ASSUME NEW g, NEW r, NEW s, r \in DesktopLink(g), s \in DesktopLink(g)
    PROVE  r = s
BY DEF DesktopLink, Identified

(* Well written credentials have one colon at most.                         *)
LEMMA OneColon ==
    ASSUME NEW t \in Seq(Given), WellWritten(t)
    PROVE  Lacks(Password(t), ":")
<1> DEFINE I == {i \in DOMAIN t : t[i] = ":"}
<1>1. Cardinality(I) <= 1
  BY DEF WellWritten
<1>2. IsFiniteSet(I) /\ Cardinality(I) \in Nat
  <2>1. IsFiniteSet(1..Len(t))
    BY FS_Interval
  <2>2. I \subseteq 1..Len(t)
    OBVIOUS
  <2>3. IsFiniteSet(I)
    BY <2>1, <2>2, FS_Subset
  <2> HIDE DEF I
  <2> QED
    BY <2>3, FS_CardinalityType
<1>3. \A i, j \in I : i = j
  <2> SUFFICES ASSUME NEW i \in I, NEW j \in I, i # j
               PROVE  FALSE
    OBVIOUS
  <2> HIDE DEF I
  <2>1. Cardinality(I \ {i}) = Cardinality(I) - 1 /\ IsFiniteSet(I \ {i})
    BY <1>2, FS_RemoveElement
  <2>2. Cardinality((I \ {i}) \ {j}) = Cardinality(I \ {i}) - 1 /\ IsFiniteSet((I \ {i}) \ {j})
    BY <2>1, FS_RemoveElement
  <2>3. Cardinality((I \ {i}) \ {j}) \in Nat
    BY <2>2, FS_CardinalityType
  <2> QED
    BY <1>1, <1>2, <2>1, <2>2, <2>3
<1>4. /\ User(t) \in Seq(Given) /\ Password(t) \in Seq(Given)
      /\ Colon(t) = 0 => Password(t) = <<>>
      /\ Colon(t) # 0 => t = User(t) \o <<":">> \o Password(t)
  BY UserAndPassword
<1>5. CASE Colon(t) = 0
  BY <1>4, <1>5 DEF Lacks
<1>6. CASE Colon(t) # 0
  <2>1. PICK u \in Seq(Given), w \in Seq(Given) : u = User(t) /\ w = Password(t)
    BY <1>4
  <2>2. t = u \o <<":">> \o w /\ ":" \in Given
    BY <1>4, <1>6, <2>1 DEF Given
  <2>3. /\ Len(t) = Len(u) + 1 + Len(w)
        /\ t[Len(u) + 1] = ":"
        /\ \A i \in 1..Len(w) : t[Len(u) + 1 + i] = w[i]
    BY <2>2, Joined
  <2>4. ASSUME NEW i \in 1..Len(w), w[i] = ":"
        PROVE  FALSE
    <3>1. PICK j \in 1..Len(t), k \in 1..Len(t) : j = Len(u) + 1 /\ k = Len(u) + 1 + i
      BY <2>3
    <3>2. j # k /\ t[j] = ":" /\ t[k] = ":"
      BY <2>3, <2>4, <3>1
    <3> QED
      BY <1>3, <3>2
  <2> QED
    BY <2>1, <2>4 DEF Lacks
<1> QED
  BY <1>5, <1>6

(* What a well written link means is written as the link was.               *)
LEMMA CodedAgain ==
    ASSUME NEW x \in Seq(Given), Lacks(x, ":"), Lacks(x, "@")
    PROVE  Encode(Decode(x)) = x
<1>1. x \in Seq(Coded)
  BY DEF Lacks, Given, Coded
<1> QED
  BY <1>1, EncodeDecoded

LEMMA WrittenAgain ==
    ASSUME NEW t \in Seq(Given), WellWritten(t), NEW s,
           s.user = Decode(User(t)), s.password = Decode(Password(t))
    PROVE  Written(s) = t
<1>1. Lacks(t, "@")
  BY DEF WellWritten, Lacks, Range
<1>2. /\ User(t) \in Seq(Given) /\ Password(t) \in Seq(Given) /\ Lacks(User(t), ":")
      /\ Colon(t) = 0 => User(t) = t /\ Password(t) = <<>>
      /\ Colon(t) # 0 => t = User(t) \o <<":">> \o Password(t)
  BY UserAndPassword
<1>3. PICK u \in Seq(Given), w \in Seq(Given) : u = User(t) /\ w = Password(t)
  BY <1>2
<1>4. Lacks(u, ":") /\ Lacks(w, ":")
  BY <1>2, <1>3, OneColon
<1>5. CASE Colon(t) = 0
  <2>1. u = t /\ s.password = <<>>
    BY <1>2, <1>3, <1>5, DecodeNothing
  <2>2. Encode(s.user) = t
    BY <1>1, <1>3, <1>4, <2>1, CodedAgain
  <2>3. Written(s) = t \o <<>>
    BY <2>1, <2>2 DEF Written
  <2> QED
    BY <2>3
<1>6. CASE Colon(t) # 0
  <2>1. t = u \o <<":">> \o w /\ ":" \in Given
    BY <1>2, <1>3, <1>6 DEF Given
  <2>2. /\ Len(t) = Len(u) + 1 + Len(w)
        /\ t[Len(u) + 1] = ":"
        /\ \A i \in 1..Len(u) : t[i] = u[i]
        /\ \A i \in 1..Len(w) : t[Len(u) + 1 + i] = w[i]
    BY <2>1, Joined
  <2>3. Lacks(u, "@") /\ Lacks(w, "@")
    BY <1>1, <2>2 DEF Lacks
  <2>4. Encode(s.user) = u /\ Encode(s.password) = w
    BY <1>3, <1>4, <2>3, CodedAgain
  <2>5. s.password # <<>>
    <3>1. Last(t) # ":"
      BY <2>2 DEF WellWritten
    <3>2. Len(w) # 0
      BY <2>2, <3>1 DEF Last
    <3>3. Len(Decode(w)) = Len(w)
      BY DecodeText
    <3> QED
      BY <1>3, <3>2, <3>3
  <2>6. Written(s) = u \o (<<":">> \o w)
    BY <2>4, <2>5 DEF Written
  <2> QED
    BY <2>1, <2>6, Associates DEF Join
<1> QED
  BY <1>5, <1>6

LEMMA LinkIsWritten ==
    ASSUME NEW p \in Platforms, NEW g, LinkShape(g), WellWritten(g.userinfo),
           p = "android" => ~ColonInUser(g), NEW s \in ParseLink(p, g)
    PROVE  Written(s) = g.userinfo
<1>1. g.userinfo \in Seq(Given)
  BY DEF LinkShape
<1>2. s \in DesktopLink(g)
  BY ParsersAgree DEF ParseLink, Platforms
<1>3. s = Settings(Protocol(g.prefix), g.host, g.port,
                   Decode(User(g.userinfo)), Decode(Password(g.userinfo)))
  BY <1>2 DEF DesktopLink, Identified
<1>4. s.user = Decode(User(g.userinfo)) /\ s.password = Decode(Password(g.userinfo))
  BY <1>3, SettingsFields
<1> QED
  BY <1>1, <1>4, WrittenAgain

-----------------------------------------------------------------------------
(* The settings that what the user gave means to platform p: none, or one.  *)
(* The Android application takes no lines.                                  *)
MeansOf(p, g) ==
    IF g.kind = "link" THEN ParseLink(p, g)
    ELSE IF g.kind = "form" THEN {s \in {Fields(g)} : Valid(s)}
    ELSE IF p = "desktop" THEN Resolved(ParseLegacy(g))
    ELSE {}

(* A form with a host for which platform p dials another proxy, and one     *)
(* that it refuses when it is too late.                                     *)
Odd(p, g) == g.kind = "form" /\ g.host \in Misread(p)
Late(p, g) == g.kind = "form" /\ g.host \in RefusedLate(p)

(* With a at its place on platform p, v is what g means, in the form that   *)
(* place has it.                                                           *)
StageOf(p, g, a, v) ==
    /\ a = "link" => g.kind = "link"
    /\ a = "form" => \/ g.kind = "link" /\ v \in MeansOf(p, g)
                     \/ g.kind = "form" /\ v = g
    /\ a = "line" => g.kind = "line"
    /\ a \in {"line", "proxy"} => p = "desktop"
    /\ a \in {"proxy", "url"} => \E s \in MeansOf(p, g) : v = URL(p, s)
    /\ a = "engine" => v \in MeansOf(p, g) \/ Odd(p, g)
    /\ (a = "refused" /\ g.kind = "link") => MeansOf(p, g) = {}
    /\ a = "failed" => Late(p, g)

(* The inductive invariant.                                                 *)
LinksInv ==
    /\ input \in Links \cup Forms \cup Lines
    /\ DOMAIN at = Platforms /\ DOMAIN value = Platforms
    /\ \A p \in Platforms : StageOf(p, input, at[p], value[p])

LEMMA MeansSound ==
    ASSUME NEW p \in Platforms, NEW g \in Links \cup Forms \cup Lines, NEW s \in MeansOf(p, g)
    PROVE  /\ Sound(s)
           /\ s.host \in Misread(p) => Odd(p, g)
           /\ s.host \in RefusedLate(p) => Late(p, g)
<1>1. CASE LinkShape(g)
  <2>1. s \in ParseLink(p, g)
    BY <1>1 DEF MeansOf, LinkShape
  <2>2. Sound(s) /\ s.host = g.host /\ g.host \in {"name", "v6"}
    BY <1>1, <2>1, LinkIsSound DEF LinkShape
  <2> QED
    BY <2>2 DEF Misread, RefusedLate
<1>2. CASE FormShape(g)
  <2>1. g.kind = "form" /\ g.host \in TypedHosts \cup {"[v6]"}
    BY <1>2 DEF FormShape
  <2>2. s = Fields(g) /\ Valid(s)
    BY <2>1 DEF MeansOf
  <2>3. Sound(s) /\ s.host = Stripped(g.host)
    BY <1>2, <2>2, FormIsSound
  <2>4. s.host \in OddHosts => g.host = s.host
    BY <2>1, <2>2, <2>3, ValidHosts
  <2>5. Misread(p) \subseteq OddHosts /\ RefusedLate(p) \subseteq OddHosts
    BY DEF Misread, RefusedLate, OddHosts
  <2> QED
    BY <2>1, <2>3, <2>4, <2>5 DEF Odd, Late
<1>3. CASE LineShape(g)
  <2>1. p = "desktop" /\ s \in ParseLegacy(g) /\ s.host \in {"name", "v6", "v6%x"}
    BY <1>3 DEF MeansOf, LineShape, Resolved
  <2>2. Sound(s)
    BY <1>3, <2>1, LineIsFields
  <2> QED
    BY <2>1, <2>2 DEF Misread, RefusedLate
<1> QED
  BY <1>1, <1>2, <1>3, Shapes

LEMMA FieldsOfSound ==
    ASSUME NEW s, Sound(s)
    PROVE  Fields(s) = s /\ Valid(s)
<1>1. Stripped(s.host) = s.host
  BY DEF Sound, Stripped, Hosts, OddHosts
<1> QED
  BY <1>1 DEF Sound, Fields

LEMMA SoundFields ==
    ASSUME NEW s, Sound(s)
    PROVE  /\ Settings(s.protocol, s.host, s.port, s.user, s.password) = s
           /\ s.host \in Hosts /\ Valid(s)
           /\ s.port \in 1..MaxPort /\ (s.protocol = "socks4" => s.password = <<>>)
<1>1. Valid(s) /\ s.host \in Hosts
  BY DEF Sound
<1>2. s.port \in 1..MaxPort /\ (s.protocol = "socks4" => s.password = <<>>)
  BY <1>1 DEF Valid
<1>3. s = Settings(s.protocol, s.host, s.port, s.user, s.password)
  BY DEF Sound
<1> QED
  BY <1>1, <1>2, <1>3

(* What is read back are the same settings; a host that is not refused late *)
(* is read by every parser, and known to the resolver.                      *)
LEMMA ReadBack ==
    ASSUME NEW p \in Platforms, NEW s, Sound(s), s.host \notin Misread(p)
    PROVE  /\ ParseProxyURL(URL(p, s)) \subseteq {s} /\ EngineProxy(URL(p, s)) \subseteq {s}
           /\ s.host \notin RefusedLate(p) =>
                 /\ EngineProxy(URL(p, s)) = {s}
                 /\ Resolved(ParseProxyURL(URL(p, s))) = {s}
<1>1. s.host \in Hosts /\ OneToken(p, s.host)
  BY SoundFields DEF OneToken, Misread
<1>2. PICK x : HostIs(p, s.host, x)
  BY <1>1, HostBack
<1>3. PICK R : R = ParseHost(<<x>>)
  OBVIOUS
<1>4. /\ R \in {{}, {s.host}}
      /\ s.host \notin RefusedLate(p) => R = {s.host} /\ s.host \in {"name", "v6", "v6%x"}
  BY <1>2, <1>3 DEF HostIs
<1>5. ParseURL(URL(p, s)) =
        {Settings(s.protocol, h, s.port, s.user, s.password) : h \in R}
  BY <1>1, <1>2, <1>3, RoundTrip DEF HostIs
<1>6. /\ Settings(s.protocol, s.host, s.port, s.user, s.password) = s /\ Valid(s)
      /\ s.port \in 1..MaxPort /\ (s.protocol = "socks4" => s.password = <<>>)
  BY SoundFields
<1>7. /\ ParseURL(URL(p, s)) \subseteq {s}
      /\ s.host \notin RefusedLate(p) => ParseURL(URL(p, s)) = {s}
  BY <1>4, <1>5, <1>6
<1>8. /\ ParseProxyURL(URL(p, s)) \subseteq {s} /\ EngineProxy(URL(p, s)) \subseteq {s}
      /\ s.host \notin RefusedLate(p) =>
            ParseProxyURL(URL(p, s)) = {s} /\ EngineProxy(URL(p, s)) = {s}
  BY <1>6, <1>7 DEF ParseProxyURL, EngineProxy
<1> QED
  BY <1>4, <1>8 DEF Resolved

(* The engine starts with the other proxy: nothing is refused.              *)
LEMMA MisreadStarts ==
    ASSUME NEW p \in Platforms, NEW s, Sound(s), s.host \in Misread(p)
    PROVE  EngineProxy(URL(p, s)) # {}
<1>1. p = "android" /\ s.host \in {"a@name", "name%25x"}
  BY DEF Misread
<1>2. /\ s.host \in Hosts
      /\ s.port \in 1..MaxPort /\ (s.protocol = "socks4" => s.password = <<>>)
  BY SoundFields
<1>3. CASE s.host = "name%25x"
  <2>1. OneToken(p, s.host)
    BY <1>3 DEF OneToken
  <2>2. PICK x : HostIs(p, s.host, x)
    BY <1>2, <2>1, HostBack
  <2>3. PICK h \in ParseHost(<<x>>) : TRUE
    BY <2>2 DEF HostIs
  <2>4. PICK r : r = Settings(s.protocol, h, s.port, s.user, s.password)
    OBVIOUS
  <2>5. r \in ParseURL(URL(p, s))
    BY <2>1, <2>2, <2>3, <2>4, RoundTrip DEF HostIs
  <2>6. r.protocol = s.protocol /\ r.port = s.port /\ r.password = s.password
    BY <2>4, SettingsFields
  <2>7. r \in EngineProxy(URL(p, s))
    BY <1>2, <2>5, <2>6 DEF EngineProxy
  <2> QED
    BY <2>7
<1>4. CASE s.host = "a@name"
  <2>1. PICK r \in ParseURL(URL(p, s)) :
           /\ r.protocol = s.protocol /\ r.port = s.port
           /\ s.protocol = "socks4" => r.password = <<>>
    BY <1>1, <1>4, SignMovesOn
  <2>2. r \in EngineProxy(URL(p, s))
    BY <1>2, <2>1 DEF EngineProxy
  <2> QED
    BY <2>2
<1> QED
  BY <1>1, <1>3, <1>4

LEMMA BecomeStep ==
    ASSUME DOMAIN at = Platforms, DOMAIN value = Platforms,
           NEW p \in Platforms, NEW from, NEW to, NEW results, Become(p, from, to, results)
    PROVE  /\ at[p] = from /\ input' = input
           /\ DOMAIN at' = Platforms /\ DOMAIN value' = Platforms
           /\ \A q \in Platforms : q # p => at'[q] = at[q] /\ value'[q] = value[q]
           /\ results # {} => at'[p] = to /\ value'[p] \in results
           /\ results = {} =>
                 at'[p] = IF from = input.kind \/ from = "form" THEN "refused" ELSE "failed"
<1>1. CASE results = {}
  BY <1>1 DEF Become
<1>2. CASE results # {}
  <2>1. (CHOOSE r \in results : TRUE) \in results
    BY <1>2
  <2>2. /\ at' = [at EXCEPT ![p] = to]
        /\ value' = [value EXCEPT ![p] = CHOOSE r \in results : TRUE]
    BY <1>2 DEF Become
  <2> QED
    BY <1>2, <2>1, <2>2 DEF Become
<1> QED
  BY <1>1, <1>2

LEMMA InitLinks == Init => LinksInv
<1> SUFFICES ASSUME Init
             PROVE  LinksInv
  OBVIOUS
<1>1. input \in Links \cup Forms \cup Lines
  BY DEF Init
<1>2. DOMAIN at = Platforms /\ DOMAIN value = Platforms
  BY DEF Init
<1>3. input.kind \in {"link", "form", "line"}
  BY <1>1, Shapes DEF LinkShape, FormShape, LineShape
<1>4. ASSUME NEW p \in Platforms
      PROVE  StageOf(p, input, at[p], value[p])
  <2>1. /\ at[p] = IF p = "android" /\ input.kind = "line" THEN "refused" ELSE input.kind
        /\ value[p] = input
    BY DEF Init
  <2> QED
    BY <1>3, <2>1 DEF StageOf, Platforms
<1> QED
  BY <1>1, <1>2, <1>4 DEF LinksInv

(* A step makes of what is at its place what the next place should have,    *)
(* refuses it in front of the user, or fails for a host that is late.       *)
Outcome(p, from, to, results) ==
    \/ results = {} /\ (from = input.kind \/ from = "form")
                   /\ (input.kind = "link" => MeansOf(p, input) = {})
    \/ results = {} /\ Late(p, input)
    \/ results # {} /\ \A v \in results : StageOf(p, input, to, v)

LEMMA BecomeKeeps ==
    ASSUME LinksInv, NEW p \in Platforms, NEW from, NEW to, NEW results,
           Become(p, from, to, results), Outcome(p, from, to, results)
    PROVE  LinksInv'
<1>1. /\ at[p] = from /\ input' = input
      /\ DOMAIN at' = Platforms /\ DOMAIN value' = Platforms
      /\ \A q \in Platforms : q # p => at'[q] = at[q] /\ value'[q] = value[q]
      /\ results # {} => at'[p] = to /\ value'[p] \in results
      /\ results = {} =>
            at'[p] = IF from = input.kind \/ from = "form" THEN "refused" ELSE "failed"
  BY BecomeStep DEF LinksInv
<1>2. ASSUME NEW q \in Platforms
      PROVE  StageOf(q, input, at'[q], value'[q])
  <2>1. CASE q # p
    BY <1>1, <2>1 DEF LinksInv
  <2>2. CASE q = p /\ results # {}
    BY <1>1, <2>2 DEF Outcome
  <2>3. CASE q = p /\ results = {} /\ Late(p, input)
    <3>1. at'[q] \in {"refused", "failed"} /\ input.kind = "form"
      BY <1>1, <2>3 DEF Late
    <3> QED
      BY <2>3, <3>1 DEF StageOf
  <2>4. CASE q = p /\ results = {} /\ ~Late(p, input)
    <3>1. at'[q] = "refused" /\ (input.kind = "link" => MeansOf(q, input) = {})
      BY <1>1, <2>4 DEF Outcome
    <3> QED
      BY <3>1 DEF StageOf
  <2> QED
    BY <2>1, <2>2, <2>3, <2>4
<1> QED
  BY <1>1, <1>2 DEF LinksInv

LEMMA OpenLinkKeeps == ASSUME LinksInv, NEW p \in Platforms, OpenLink(p) PROVE LinksInv'
<1>1. Become(p, "link", "form", ParseLink(p, input)) /\ at[p] = "link"
  BY DEF OpenLink, Become
<1>2. input.kind = "link" /\ ParseLink(p, input) = MeansOf(p, input)
  BY <1>1 DEF LinksInv, StageOf, MeansOf
<1>3. \A v \in MeansOf(p, input) : StageOf(p, input, "form", v)
  BY <1>2 DEF StageOf
<1>4. Outcome(p, "link", "form", ParseLink(p, input))
  BY <1>2, <1>3 DEF Outcome
<1> QED
  BY <1>1, <1>4, BecomeKeeps

LEMMA ConnectKeeps == ASSUME LinksInv, NEW p \in Platforms, Connect(p) PROVE LinksInv'
<1>1. PICK to : to = IF p = "desktop" THEN "proxy" ELSE "url"
  OBVIOUS
<1>2. PICK results : results = {URL(p, s) : s \in {s \in {Fields(value[p])} : Valid(s)}}
  OBVIOUS
<1>3. Become(p, "form", to, results) /\ at[p] = "form"
  BY <1>1, <1>2 DEF Connect, Become
<1>4. \A s \in MeansOf(p, input) : StageOf(p, input, to, URL(p, s))
  BY <1>1 DEF StageOf
<1>5. CASE input.kind = "link" /\ value[p] \in MeansOf(p, input)
  <2>1. Sound(value[p])
    BY <1>5, MeansSound DEF LinksInv
  <2>2. results = {URL(p, value[p])}
    BY <1>2, <2>1, FieldsOfSound
  <2>3. Outcome(p, "form", to, results)
    BY <1>4, <1>5, <2>2 DEF Outcome
  <2> QED
    BY <1>3, <2>3, BecomeKeeps
<1>6. CASE input.kind = "form" /\ value[p] = input
  <2>1. MeansOf(p, input) = {s \in {Fields(value[p])} : Valid(s)}
    BY <1>6 DEF MeansOf
  <2>2. \A v \in results : StageOf(p, input, to, v)
    BY <1>2, <1>4, <2>1
  <2>3. Outcome(p, "form", to, results)
    BY <1>6, <2>2 DEF Outcome
  <2> QED
    BY <1>3, <2>3, BecomeKeeps
<1>7. StageOf(p, input, at[p], value[p])
  BY DEF LinksInv
<1> QED
  BY <1>3, <1>5, <1>6, <1>7 DEF StageOf

LEMMA ClientRunKeeps == ASSUME LinksInv, NEW p \in Platforms, ClientRun(p) PROVE LinksInv'
<1>1. StageOf(p, input, at[p], value[p])
  BY DEF LinksInv
<1>2. CASE Become(p, "proxy", "url", {URL(p, s) : s \in Resolved(ParseProxyURL(value[p]))})
  <2>1. at[p] = "proxy" /\ p = "desktop"
    BY <1>1, <1>2 DEF Become, StageOf
  <2>2. PICK s \in MeansOf(p, input) : value[p] = URL(p, s)
    BY <1>1, <2>1 DEF StageOf
  <2>3. Sound(s) /\ s.host \notin Misread(p) /\ (s.host \in RefusedLate(p) => Late(p, input))
    BY <2>1, <2>2, MeansSound DEF LinksInv, Misread
  <2>4. PICK R : R = Resolved(ParseProxyURL(value[p]))
    OBVIOUS
  <2>5. R \subseteq {s} /\ (s.host \notin RefusedLate(p) => R = {s})
    BY <2>2, <2>3, <2>4, ReadBack DEF Resolved
  <2>6. PICK results : results = {URL(p, r) : r \in R}
    OBVIOUS
  <2>7. StageOf(p, input, "url", URL(p, s))
    BY <2>2 DEF StageOf
  <2>8. Outcome(p, "proxy", "url", results)
    BY <2>3, <2>5, <2>6, <2>7 DEF Outcome
  <2> QED
    BY <1>2, <2>4, <2>6, <2>8, BecomeKeeps
<1>3. CASE Become(p, "line", "url", {URL(p, s) : s \in Resolved(ParseLegacy(input))})
  <2>1. at[p] = "line" /\ p = "desktop" /\ input.kind = "line"
    BY <1>1, <1>3 DEF Become, StageOf
  <2>2. PICK results : results = {URL(p, s) : s \in Resolved(ParseLegacy(input))}
    OBVIOUS
  <2>3. Resolved(ParseLegacy(input)) = MeansOf(p, input)
    BY <2>1 DEF MeansOf
  <2>4. \A v \in results : StageOf(p, input, "url", v)
    BY <2>2, <2>3 DEF StageOf
  <2>5. Outcome(p, "line", "url", results)
    BY <2>1, <2>4 DEF Outcome
  <2> QED
    BY <1>3, <2>2, <2>5, BecomeKeeps
<1> QED
  BY <1>2, <1>3 DEF ClientRun

LEMMA StartEngineKeeps == ASSUME LinksInv, NEW p \in Platforms, StartEngine(p) PROVE LinksInv'
<1>1. Become(p, "url", "engine", EngineProxy(value[p])) /\ at[p] = "url"
  BY DEF StartEngine, Become
<1>2. PICK s \in MeansOf(p, input) : value[p] = URL(p, s)
  BY <1>1 DEF LinksInv, StageOf
<1>3. PICK results : results = EngineProxy(value[p])
  OBVIOUS
<1>4. /\ Sound(s)
      /\ s.host \in Misread(p) => Odd(p, input)
      /\ s.host \in RefusedLate(p) => Late(p, input)
  BY <1>2, MeansSound DEF LinksInv
<1>5. CASE s.host \in Misread(p)
  <2>1. \A v : StageOf(p, input, "engine", v)
    BY <1>4, <1>5 DEF StageOf
  <2>2. results # {}
    BY <1>2, <1>3, <1>4, <1>5, MisreadStarts
  <2> QED
    BY <1>1, <1>3, <2>1, <2>2, BecomeKeeps DEF Outcome
<1>6. CASE s.host \notin Misread(p)
  <2>1. results \subseteq {s} /\ (s.host \notin RefusedLate(p) => results = {s})
    BY <1>2, <1>3, <1>4, <1>6, ReadBack
  <2>2. StageOf(p, input, "engine", s)
    BY <1>2 DEF StageOf
  <2>3. Outcome(p, "url", "engine", results)
    BY <1>4, <2>1, <2>2 DEF Outcome
  <2> QED
    BY <1>1, <1>3, <2>3, BecomeKeeps
<1> QED
  BY <1>5, <1>6

LEMMA NextLinks ==
    ASSUME LinksInv, [Next]_vars
    PROVE  LinksInv'
<1>1. CASE UNCHANGED vars
  BY <1>1 DEF vars, LinksInv
<1>2. CASE Next
  BY <1>1, <1>2, OpenLinkKeeps, ConnectKeeps, ClientRunKeeps, StartEngineKeeps DEF Next, Done
<1> QED
  BY <1>1, <1>2

-----------------------------------------------------------------------------
(* For links, forms and lines with credentials of any length, on both       *)
(* platforms: what is at a place on the way is what the user's text means.  *)
THEOREM LinksInvAlways == Spec => []LinksInv
<1>1. LinksInv /\ [Next]_vars => LinksInv'
  BY NextLinks
<1> QED
  BY <1>1, InitLinks, PTL DEF Spec

(* Nothing that was accepted fails on the way to the engine, but a form     *)
(* with a host of RefusedLate: for every protocol, port and credentials,    *)
(* URL and the parsers of client.Run and engine.Start undo one another. The *)
(* hosts of Misread are not among those that fail.                          *)
THEOREM NothingIsRefusedLate == Spec => []NoLateRefusal
<1>1. LinksInv => NoLateRefusal
  BY DEF LinksInv, StageOf, NoLateRefusal, Late
<1> QED
  BY <1>1, LinksInvAlways, PTL

(* The engine dials the proxy that stands in the form, or in the line, with *)
(* every user name and password, reserved characters included, and with     *)
(* every host but those of Misread.                                         *)
THEOREM FieldsReachTheEngine == Spec => []EngineGetsTheFields
<1>1. LinksInv => EngineGetsTheFields
  <2> SUFFICES ASSUME LinksInv, NEW p \in Platforms,
                      input.kind # "link", at[p] = "engine", input.host \notin Misread(p)
               PROVE  value[p] = Fields(input)
    BY DEF EngineGetsTheFields
  <2>1. value[p] \in MeansOf(p, input)
    BY DEF LinksInv, StageOf, Odd
  <2>2. CASE FormShape(input)
    BY <2>1, <2>2 DEF MeansOf, FormShape
  <2>3. CASE LineShape(input)
    <3>1. value[p] \in ParseLegacy(input)
      BY <2>1, <2>3 DEF MeansOf, LineShape, Resolved
    <3> QED
      BY <2>3, <3>1, LineIsFields
  <2>4. ~LinkShape(input)
    BY DEF LinkShape
  <2> QED
    BY <2>2, <2>3, <2>4, Shapes DEF LinksInv
<1> QED
  BY <1>1, LinksInvAlways, PTL

LEMMA LinkMeans ==
    ASSUME LinksInv, input.kind = "link", NEW p \in Platforms
    PROVE  /\ LinkShape(input)
           /\ at[p] = "engine" => value[p] \in ParseLink(p, input)
           /\ at[p] = "refused" => ParseLink(p, input) = {}
           /\ at[p] # "failed"
<1>1. LinkShape(input)
  BY Shapes DEF LinksInv, FormShape, LineShape
<1>2. StageOf(p, input, at[p], value[p]) /\ MeansOf(p, input) = ParseLink(p, input)
  BY DEF LinksInv, MeansOf
<1> QED
  BY <1>1, <1>2 DEF StageOf, Odd, Late

(* The engine dials the proxy a well written link was written for; on       *)
(* Android, if there is no escaped colon in the user name.                  *)
THEOREM LinkReachesTheEngine == Spec => []EngineGetsTheLink
<1>1. LinksInv => EngineGetsTheLink
  <2> SUFFICES ASSUME LinksInv, NEW p \in Platforms,
                      input.kind = "link", at[p] = "engine", WellWritten(input.userinfo),
                      p = "android" => ~ColonInUser(input)
               PROVE  /\ Written(value[p]) = input.userinfo
                      /\ value[p].protocol = Protocol(input.prefix)
                      /\ value[p].host = input.host /\ value[p].port = input.port
    BY DEF EngineGetsTheLink
  <2>1. LinkShape(input) /\ value[p] \in ParseLink(p, input)
    BY LinkMeans
  <2> QED
    BY <2>1, LinkIsSound, LinkIsWritten
<1> QED
  BY <1>1, LinksInvAlways, PTL

(* Without an escaped colon in the user name the desktop application takes  *)
(* every link that the Android application takes, for the same proxy; and   *)
(* Android every link that the desktop takes, but for the named exceptions. *)
THEOREM PlatformsAgree == Spec => []LinksAgree
<1>1. LinksInv => LinksAgree
  <2> SUFFICES ASSUME LinksInv, input.kind = "link", ~ColonInUser(input),
                      \A p \in Platforms : Over(p)
               PROVE  /\ at["android"] = "engine" =>
                            at["desktop"] = "engine" /\ value["desktop"] = value["android"]
                      /\ (at["desktop"] = "engine" /\ "@" \notin Range(input.userinfo)
                             /\ input.tail \notin {"?", "#"}) =>
                            at["android"] = "engine"
    BY DEF LinksAgree
  <2>1. "android" \in Platforms /\ "desktop" \in Platforms
    BY DEF Platforms
  <2>2. /\ at["android"] \in {"engine", "refused", "failed"}
        /\ at["desktop"] \in {"engine", "refused", "failed"}
    BY <2>1 DEF Over
  <2>3. /\ LinkShape(input)
        /\ at["android"] = "engine" => value["android"] \in AndroidLink(input)
        /\ at["android"] = "refused" => AndroidLink(input) = {}
        /\ at["android"] # "failed"
    BY <2>1, LinkMeans DEF ParseLink
  <2>4. /\ at["desktop"] = "engine" => value["desktop"] \in DesktopLink(input)
        /\ at["desktop"] = "refused" => DesktopLink(input) = {}
        /\ at["desktop"] # "failed"
    BY <2>1, LinkMeans DEF ParseLink
  <2>5. ASSUME at["android"] = "engine"
        PROVE  at["desktop"] = "engine" /\ value["desktop"] = value["android"]
    <3>1. value["android"] \in DesktopLink(input)
      BY <2>3, <2>5, ParsersAgree
    <3>2. at["desktop"] = "engine"
      BY <2>2, <2>4, <3>1
    <3> QED
      BY <2>4, <3>1, <3>2, OneResult
  <2>6. ASSUME at["desktop"] = "engine", "@" \notin Range(input.userinfo),
               input.tail \notin {"?", "#"}
        PROVE  at["android"] = "engine"
    <3>1. value["desktop"] \in AndroidLink(input)
      BY <2>3, <2>4, <2>6, ParsersAgree
    <3> QED
      BY <2>2, <2>3, <3>1
  <2> QED
    BY <2>5, <2>6
<1> QED
  BY <1>1, LinksInvAlways, PTL

=============================================================================
