------------------------------ MODULE ProxyLinks ------------------------------
(***************************************************************************)
(* From what the user gives (a configuration link, the fields of the form,  *)
(* the host:port:user:password line of the command line) to the proxy the   *)
(* engine dials, in the Go code of the desktop and the Kotlin code of       *)
(* Android. The text is parsed and written again several times on the way.  *)
(*                                                                         *)
(* A text is a sequence of tokens: "a" stands for what needs no escape, ":" *)
(* and "@" for themselves, "%3A" and "%40" for their escapes. The name of a *)
(* host is one token, which shows what is odd in it (OddHosts).             *)
(*                                                                         *)
(* External: net/url (its strict form, of the Go release in go.mod) and     *)
(* java.net.URI, which split an authority at the last "@", and of which the *)
(* latter refuses one with two of them; and the resolver, which knows       *)
(* "name" and addresses.                                                    *)
(***************************************************************************)
EXTENDS Integers, SequencesExt

CONSTANTS
    MaxTokens,  \* bound: tokens of the credentials in a link
    MaxTyped    \* bound: tokens of a user name or password typed in

ASSUME MaxTokensAssumption == MaxTokens \in Nat /\ MaxTyped \in Nat

Platforms == {"desktop", "android"}

MaxPort == 65535

Ports == {-1, 0, 1080, MaxPort, MaxPort + 1}    \* -1: none, or not a number

Linked(scheme, prefix, userinfo, host, port, tail) ==
    [kind : {"link"}, scheme : scheme, prefix : prefix, userinfo : userinfo,
     host : host, port : port, tail : tail]

Identities == {"socks5", "socks5-", "socks4", "socks4-", "http-", "absent"}

(* Any credentials, and anything around them.                               *)
CredentialLinks ==
    Linked({"socks2vpn"}, Identities, BoundedSeq({"a", ":", "@", "%3A", "%40"}, MaxTokens),
           {"name"}, {1080}, {""})

AddressLinks ==
    Linked({"socks2vpn", "socks2vps", "https"}, {"socks5-", "socks4"}, {<<>>, <<"a", ":", "a">>},
                {"name", "v6"}, Ports, {"", "/", "/path", "?", "?query", "#", "#part"})

Links == CredentialLinks \cup AddressLinks

Typed(kind, protocols, hosts, text) ==
    [kind : {kind}, protocol : protocols, host : hosts, port : Ports,
     user : text, password : text]

(* Hosts that no validator looks into: "?" and "#" end the authority of a   *)
(* URL ("?" stands for all that may not be in a host, as "{" and "|"); a    *)
(* "%" that begins an escape a host may have ("name%25x") or not ("name%x"), *)
(* and the one before the zone of an IPv6 address; "name:99" is written in  *)
(* brackets without being an IPv6 address.                                  *)
OddHosts == {"a@name", "name?x", "name#x", "name%x", "name%25x", "v6%x", "name:99"}

TypedHosts == {"", "name", "v6", "name/x"} \cup OddHosts

Forms == Typed("form", {"socks4", "socks5"}, TypedHosts \cup {"[v6]"},
               BoundedSeq({"a", ":", "@"}, MaxTyped))

(* In a line nothing is escaped: the user name ends at the first ":". A     *)
(* host with a ":" stands in brackets.                                      *)
Lines == {l \in Typed("line", {"socks5"}, TypedHosts,
                      BoundedSeq({"a", ":", "@", "://"}, MaxTyped)) :
            {":", "://"} \cap Range(l.user) = {}}

VARIABLES
    input,      \* what the user gave. Never changes
    at,         \* at[p]: how far platform p is with it
    value       \* value[p]: what it has made of it

vars == <<input, at, value>>

Init ==
    /\ input \in Links \cup Forms \cup Lines
    /\ at = [p \in Platforms |->
               IF p = "android" /\ input.kind = "line" THEN "refused" ELSE input.kind]
    /\ value = [p \in Platforms |-> input]

-----------------------------------------------------------------------------
Decode(text) == [i \in DOMAIN text |-> CASE text[i] = "%3A" -> ":"
                                         [] text[i] = "%40" -> "@"
                                         [] OTHER -> text[i]]
Encode(text) == [i \in DOMAIN text |-> CASE text[i] = ":" -> "%3A"
                                         [] text[i] = "@" -> "%40"
                                         [] OTHER -> text[i]]

Colon(text) == SelectInSeq(text, LAMBDA t : t = ":")
User(text) == IF Colon(text) = 0 THEN text ELSE SubSeq(text, 1, Colon(text) - 1)
Password(text) == IF Colon(text) = 0 THEN <<>> ELSE SubSeq(text, Colon(text) + 1, Len(text))

Settings(protocol, host, port, user, password) ==
    [protocol |-> protocol, host |-> host, port |-> port, user |-> user, password |-> password]

(* NewForScheme, and validateFields: of the characters of a host, white     *)
(* space, "/" and "\" are barred.                                           *)
Valid(s) ==
    /\ s.protocol \in {"socks4", "socks5"}
    /\ s.host \notin {"", "name/x"}
    /\ s.port \in 1..MaxPort
    /\ s.user = <<>> => s.password = <<>>
    /\ s.protocol = "socks4" => s.password = <<>>

-----------------------------------------------------------------------------
(* Links. A parser returns the set of its results: one, or none.            *)

Protocol(prefix) == IF prefix \in {"socks5", "socks5-"} THEN "socks5" ELSE "socks4"

(* parseIdentity, and the checks around it: "socks5" and "socks4" end where *)
(* a user name with its dash would begin.                                  *)
Identified(link, user, password, hasPassword) ==
    {s \in {Settings(Protocol(link.prefix), link.host, link.port, user, password)} :
        /\ link.scheme \in {"socks2vpn", "socks2vps"}
        /\ link.prefix \in {"socks5", "socks5-", "socks4", "socks4-"}
        /\ link.prefix \in {"socks5", "socks4"} => user = <<>>
        /\ s.protocol = "socks4" => ~hasPassword
        /\ Valid(s)}

(* Mutant: the credentials are unescaped before they are split. *)
DesktopLink_DecodesFirst(link) ==
    LET text == Decode(link.userinfo)
    IN  {s \in Identified(link, User(text), Password(text), Colon(text) # 0) :
            link.tail \in {"", "/", "?", "#"}}

(* deeplink.Parse: split, then unescaped. "?" and "#" alone are no query    *)
(* and no fragment.                                                        *)
DesktopLink(link) ==
    LET text == link.userinfo
    IN  {s \in Identified(link, Decode(User(text)), Decode(Password(text)), Colon(text) # 0) :
            link.tail \in {"", "/", "?", "#"}}

(* Mutant: a SOCKS4 link may have a password, as long as it is empty.       *)
AndroidLink_EmptyPassword(link) ==
    LET text == Decode(link.userinfo)
    IN  {s \in Identified(link, User(text), Password(text), Password(text) # <<>>) :
            link.tail \in {"", "/"} /\ "@" \notin Range(link.userinfo)}

(* ProxyDeepLink.parse: unescaped by URI.userInfo, then split. *)
AndroidLink(link) ==
    LET text == Decode(link.userinfo)
    IN  {s \in Identified(link, User(text), Password(text), Colon(text) # 0) :
            link.tail \in {"", "/"} /\ "@" \notin Range(link.userinfo)}

ParseLink(p, link) == IF p = "desktop" THEN DesktopLink(link) ELSE AndroidLink(link)

-----------------------------------------------------------------------------
(* Proxy URLs *)

(* Mutant: the credentials are written as they are. *)
Credentials_AsTheyAre(s) ==
    IF s.user = <<>> THEN <<>>
    ELSE IF s.protocol = "socks4" THEN s.user \o <<"@">>
    ELSE s.user \o <<":">> \o s.password \o <<"@">>

Credentials(s) ==
    IF s.user = <<>> THEN <<>>
    ELSE IF s.protocol = "socks4" THEN Encode(s.user) \o <<"@">>
    ELSE Encode(s.user) \o <<":">> \o Encode(s.password) \o <<"@">>

(* url.URL.String, encodeHost. *)
EscapedHost(host) ==
    CASE host = "a@name" -> "a%40name"
      [] host = "name?x" -> "name%3Fx"
      [] host = "name#x" -> "name%23x"
      [] host = "name%x" -> "name%25x"
      [] host = "name%25x" -> "name%2525x"
      [] host = "v6%x" -> "v6%25x"
      [] OTHER -> host

(* Settings.URL escapes the host, StartRequest.proxyUrl does not. *)
HostTokens(p, host) ==
    CASE p = "desktop" -> <<EscapedHost(host)>>
      [] p = "android" /\ host = "a@name" -> <<"a", "@", "name">>
      [] OTHER -> <<host>>

URL(p, s) ==
    [protocol |-> s.protocol, port |-> s.port,
     authority |-> Credentials(s) \o HostTokens(p, s.host)]

(* url.Parse: the user information ends at the last "@". In the host "%25"  *)
(* is the only escape of ASCII, "?" and "#" leave the authority without its *)
(* port, and only an IPv6 address, with a zone or not, stands in brackets.  *)
Sign(authority) == SelectLastInSeq(authority, LAMBDA t : t = "@")

UnescapedHost(host) ==
    CASE host = "name%25x" -> "name%x"
      [] host = "name%2525x" -> "name%25x"
      [] host = "v6%25x" -> "v6%x"
      [] OTHER -> host

ParseHost(text) ==
    {UnescapedHost(h) :
        h \in {h \in {"name", "v6", "name%25x", "name%2525x", "v6%25x"} : text = <<h>>}}

ParseURL(url) ==
    LET sign == Sign(url.authority)
        userinfo == SubSeq(url.authority, 1, sign - 1)
        host == SubSeq(url.authority, sign + 1, Len(url.authority))
    IN  {Settings(url.protocol, h, url.port, Decode(User(userinfo)), Decode(Password(userinfo))) :
            h \in ParseHost(host)}

(* proxy.Parse of a URL, and of a line without "://" *)
ParseProxyURL(url) == {s \in ParseURL(url) : Valid(s)}

ParseLegacy(line) ==
    LET text == line.user \o (IF line.password = <<>> THEN <<>> ELSE <<":">> \o line.password)
    IN  {s \in {Settings("socks5", line.host, line.port, User(text), Password(text))} :
            Valid(s) /\ "://" \notin Range(text)}

(* engine.parseProxy *)
EngineProxy(url) ==
    {s \in ParseURL(url) : s.port \in 1..MaxPort /\ (s.protocol = "socks4" => s.password = <<>>)}

-----------------------------------------------------------------------------
Stripped(host) == IF host = "[v6]" THEN "v6" ELSE host

Fields(s) == Settings(s.protocol, Stripped(s.host), s.port, s.user, s.password)

(* What the user gave is refused in front of the user; what has been        *)
(* accepted fails in the middle of a connection.                           *)
Become(p, from, to, results) ==
    /\ at[p] = from
    /\ IF results = {}
       THEN /\ at' = [at EXCEPT ![p] = IF from = input.kind \/ from = "form"
                                       THEN "refused" ELSE "failed"]
            /\ UNCHANGED value
       ELSE /\ at' = [at EXCEPT ![p] = to]
            /\ value' = [value EXCEPT ![p] = CHOOSE r \in results : TRUE]
    /\ UNCHANGED input

(* The link fills the form. *)
OpenLink(p) == Become(p, "link", "form", ParseLink(p, input))

(* Mutant: the port is left to the parser of the URL. *)
Connect_AnyPort(p) ==
    Become(p, "form", IF p = "desktop" THEN "proxy" ELSE "url",
           {URL(p, s) : s \in {s \in {Fields(value[p])} : Valid([s EXCEPT !.port = 1080])}})

(* makeProxyURL; validateFields and proxyUrl *)
Connect(p) ==
    Become(p, "form", IF p = "desktop" THEN "proxy" ELSE "url",
           {URL(p, s) : s \in {s \in {Fields(value[p])} : Valid(s)}})

(* resolveProxyAddress: the token of a host also stands for its address.    *)
Resolved(results) == {s \in results : s.host \in {"name", "v6", "v6%x"}}

(* client.Run parses the proxy, resolves its host and writes it again, with *)
(* the address, for the engine.                                             *)
ClientRun(p) ==
    \/ Become(p, "proxy", "url", {URL(p, s) : s \in Resolved(ParseProxyURL(value[p]))})
    \/ Become(p, "line", "url", {URL(p, s) : s \in Resolved(ParseLegacy(input))})

StartEngine(p) == Become(p, "url", "engine", EngineProxy(value[p]))

Over(p) == at[p] \in {"engine", "refused", "failed"}

Done == (\A p \in Platforms : Over(p)) /\ UNCHANGED vars

Next ==
    \/ \E p \in Platforms : OpenLink(p) \/ Connect(p) \/ ClientRun(p) \/ StartEngine(p)
    \/ Done

Spec == Init /\ [][Next]_vars

-----------------------------------------------------------------------------
(* The credentials of a link that README.md, "Percent-encode reserved       *)
(* characters in credentials", lets one write for settings s.               *)
Written(s) ==
    Encode(s.user) \o (IF s.password = <<>> THEN <<>> ELSE <<":">> \o Encode(s.password))

WellWritten(text) ==
    /\ "@" \notin Range(text)
    /\ Cardinality({i \in DOMAIN text : text[i] = ":"}) <= 1
    /\ text # <<>> => Last(text) # ":"

(* URI.userInfo is unescaped before it is split: an escaped colon in the    *)
(* user name ends it on Android.                                           *)
ColonInUser(link) == "%3A" \in Range(User(link.userinfo))

(* The engine dials the proxy a link was written for, with its credentials, *)
(* after every parser and writer on the way; on Android, without a colon in *)
(* the user name.                                                          *)
EngineGetsTheLink ==
    \A p \in Platforms :
        (input.kind = "link" /\ at[p] = "engine" /\ WellWritten(input.userinfo)
             /\ (p = "android" => ~ColonInUser(input))) =>
            /\ Written(value[p]) = input.userinfo
            /\ value[p].protocol = Protocol(input.prefix)
            /\ value[p].host = input.host /\ value[p].port = input.port

(* Android writes these hosts as they are into a URL that means another     *)
(* proxy: what stands before the "@" joins the credentials, and "%25" is    *)
(* unescaped.                                                               *)
Misread(p) == IF p = "android" THEN {"a@name", "name%25x"} ELSE {}

(* ... and the one in the fields of the form, or in the line, whatever is   *)
(* in the user name and the password, and whatever is odd in the host: the  *)
(* desktop never dials another proxy, Android only for a host of Misread.   *)
EngineGetsTheFields ==
    \A p \in Platforms :
        (input.kind # "link" /\ at[p] = "engine" /\ input.host \notin Misread(p)) =>
            value[p] = Fields(input)

(* README.md, "The desktop and Android applications accept both": the two   *)
(* parsers take the same links for the same proxy, but for an escaped colon *)
(* in the user name, an empty query or fragment, and an "@" not escaped.   *)
LinksAgree ==
    (input.kind = "link" /\ ~ColonInUser(input) /\ \A p \in Platforms : Over(p)) =>
        /\ at["android"] = "engine" =>
              at["desktop"] = "engine" /\ value["desktop"] = value["android"]
        /\ (at["desktop"] = "engine" /\ "@" \notin Range(input.userinfo)
               /\ input.tail \notin {"?", "#"}) =>
              at["android"] = "engine"

(* The hosts that a validator accepts and a later stage refuses: on the     *)
(* desktop url.Parse of what Settings.URL has written, in client.Run, or    *)
(* the resolver; on Android Mobile.checkProxy.                              *)
RefusedLate(p) ==
    {"name?x", "name#x", "name%x", "name:99"}
    \cup (IF p = "desktop" THEN {"a@name", "name%25x"} ELSE {"v6%x"})

(* What a link, a line or the form is accepted with fails nowhere on the    *)
(* way to the engine, whatever the protocol, the port and the credentials;  *)
(* the only things a connection fails for are the hosts of RefusedLate, and *)
(* only if they were typed into the form.                                   *)
NoLateRefusal ==
    \A p \in Platforms :
        at[p] = "failed" => input.kind = "form" /\ input.host \in RefusedLate(p)

=============================================================================
