---------------------------- MODULE DomainChecks ----------------------------
(***************************************************************************)
(* How the domain page of an administrator compares the DNS with what it   *)
(* asks for (internal/web/admin_handlers, spf).                            *)
(*                                                                         *)
(* A zone has, per name, the mail exchangers, the addresses and the TXT    *)
(* records; a lookup that fails finds none.  A TXT record is an SPF policy,*)
(* whose terms are what is left of them without their qualifiers, a DKIM   *)
(* key, or other text.                                                     *)
(***************************************************************************)
EXTENDS Naturals, Sequences, SequencesExt

Spf(terms) == [is |-> "spf", terms |-> terms]
Dkim(public) == [is |-> "dkim", p |-> public]

\* DERToDNSValue: the public half of the key pair.
DERToDNSValue(key) == Dkim([halfOf |-> key])

\* What the page asks for: the relay as exchanger, and an SPF policy that names it.
ExpectedMX(smtpDomain) == <<smtpDomain>>
ExpectedSPF(smtpDomain) == Spf(<<[kind |-> "mx"], [kind |-> "include", domain |-> smtpDomain]>>)

\* checkMX: the relay, or a host below it.
MXPasses(zone, domain, smtpDomain) ==
  \E host \in Range(zone.mx[domain]) : host = smtpDomain \/ smtpDomain \in zone.above[host]

Meet(S, T) == S \cap T # {}

\* spfIPMatches: a network in no valid notation has no address.
SpfIPMatches(term, ips) == Meet(term.addresses, ips)

\* spfAuthorizes, which follows three includes in a row at most.  The order of the
\* terms and their qualifiers do not count, and neither does "all".
SpfAuthorizes(zone, ips, domain0, policy0) ==
  LET Authorizes[left \in 0..3] ==
        [domain \in DOMAIN zone.txt, policy \in UNION {Range(zone.txt[d]) : d \in DOMAIN zone.txt} |->
           \E i \in DOMAIN policy.terms :
             LET term == policy.terms[i] IN
             \/ term.kind = "ip" /\ SpfIPMatches(term, ips)
             \/ /\ term.kind = "include" /\ left > 0
                /\ \E included \in Range(zone.txt[term.domain]) :
                     included.is = "spf" /\ Authorizes[left - 1][term.domain, included]
             \/ term.kind = "mx" /\ \E host \in Range(zone.mx[domain]) : Meet(zone.a[host], ips)
             \/ term.kind = "a" /\ Meet(zone.a[domain], ips)]
  IN Authorizes[3][domain0, policy0]

SpfPolicies(records) == SelectSeq(records, LAMBDA record : record.is = "spf")

\* resolveServerIPs: what the outside service says (fetchExternalIP: one address,
\* or none if it cannot be asked), or else the addresses of the relay's name.
ServerIPs(zone, external, smtpDomain) == IF external # {} THEN external ELSE zone.a[smtpDomain]

\* checkSPF, with the first policy among the records.
SPFPasses(zone, external, domain, smtpDomain) ==
  LET policies == SpfPolicies(zone.txt[domain])
      ips == ServerIPs(zone, external, smtpDomain)
  IN policies # <<>> /\ ips # {} /\ SpfAuthorizes(zone, ips, domain, policies[1])

\* checkDKIM: the records are strung together, and what follows the first "p=" has to
\* be the key that is expected, so that the first key has to be the last record.
DKIMPasses(records, expected) ==
  /\ records # <<>>
  /\ \A i \in DOMAIN records : records[i].is = "dkim" => i = Len(records)
  /\ Last(records).is = "dkim" /\ Last(records).p = expected.p
=============================================================================
