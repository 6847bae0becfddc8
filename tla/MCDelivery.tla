----------------------------- MODULE MCDelivery -----------------------------
(* One message to three recipients of two domains, one of them with two      *)
(* exchangers, and a malformed address; or, while two administrators change  *)
(* the signing key, one that has nowhere to go, for a delivery does not look *)
(* at the keys again.                                                        *)
EXTENDS Delivery

CONSTANTS r1, r2, r3, bad, a1, a2, d1, d2, h1, h2, h3

MCDomainOf == (r1 :> d1) @@ (r2 :> d1) @@ (r3 :> d2) @@ (bad :> "malformed")
MCExchangers == (d1 :> <<h1, h2>>) @@ (d2 :> <<h3>>)
MCMailings ==
  [to : {{r1, r2, r3, bad}}, relay : BOOLEAN, tls : BOOLEAN, rotate : {FALSE}, agree : {TRUE}]
    \cup [to : {{bad}}, relay : {FALSE}, tls : {FALSE}, rotate : {TRUE}, agree : BOOLEAN]
MCTool == (a1 :> "page") @@ (a2 :> "command")

(* The checks of the domain page, on zones of five domains: our mail server *)
(* has the address "ip", and each domain has no policy, one that lists an   *)
(* address or its own or its exchangers' ones, or one that includes another *)
(* domain's.                                                                *)
Name == 1..5
IP(addresses) == Spf(<<[kind |-> "ip", addresses |-> addresses]>>)
Include(d) == Spf(<<[kind |-> "include", domain |-> d]>>)
Policies(d) == {<<>>, <<[is |-> "text"], IP({"ip"})>>, <<Spf(<<[kind |-> "mx"], [kind |-> "a"]>>)>>,
                <<Include((d % 5) + 1)>>, <<Include(1), Include((d % 5) + 1)>>}
Zone(txt) == [txt |-> txt, mx |-> [d \in Name |-> IF d = 5 THEN <<5>> ELSE <<>>],
              a |-> [d \in Name |-> IF d = 5 THEN {"ip"} ELSE {"other"}], above |-> [d \in Name |-> {}]]
Zones == {Zone(txt) : txt \in {t \in [Name -> UNION {Policies(d) : d \in Name}] : \A d \in Name : t[d] \in Policies(d)}}

\* The policies that a walk of so many includes from the first policy of d finds.
Lists(policy, d, zone) ==
  \E i \in DOMAIN policy.terms :
    LET t == policy.terms[i] IN
    \/ t.kind = "ip" /\ "ip" \in t.addresses
    \/ t.kind \in {"mx", "a"} /\ d = 5
Includes(policy, e) ==
  \E i \in DOMAIN policy.terms : policy.terms[i].kind = "include" /\ policy.terms[i].domain = e
SpfOf(zone, d) == {p \in Range(zone.txt[d]) : p.is = "spf"}
After(zone, found) ==
  UNION {{<<e, p>> : p \in SpfOf(zone, e)} : e \in {e \in Name : \E x \in found : Includes(x[2], e)}}
Found(zone, d) ==
  LET zero == {<<d, Head(SpfPolicies(zone.txt[d]))>>}
      one == After(zone, zero)
      two == After(zone, one)
  IN zero \cup one \cup two \cup After(zone, two)

\* spfAuthorizes finds the server exactly if one of the policies within three
\* includes lists it.
ASSUME SpfWithinThreeIncludes ==
  \A zone \in Zones, d \in Name :
    SPFPasses(zone, {"ip"}, d, 5) <=>
      SpfPolicies(zone.txt[d]) # <<>> /\ \E x \in Found(zone, d) : Lists(x[2], x[1], zone)

\* A domain that publishes what the page asks for passes all three checks, whatever
\* the others publish, as long as the relay's name leads to the server.
ASSUME AskedForPasses ==
  \A zone \in Zones, key \in 1..2 : \A external \in {{}, {"ip"}} :
    LET published == [zone EXCEPT !.mx[1] = ExpectedMX(5), !.txt[1] = <<ExpectedSPF(5)>>] IN
    /\ MXPasses(published, 1, 5)
    /\ SPFPasses(published, external, 1, 5)
    /\ DKIMPasses(<<DERToDNSValue(key)>>, DERToDNSValue(key))
    /\ ~DKIMPasses(<<DERToDNSValue(key)>>, DERToDNSValue(3 - key))
=============================================================================
