---------------------------- MODULE MCTrashPurge ----------------------------
(* Small instances of TrashPurge for TLC, and checks of Reading. *)
EXTENDS TrashPurge, Reading

CONSTANTS e1, e2, r1, p1, p2

MCEmail == {e1, e2}
MCRequest == {r1}
MCPurger == {p1, p2}
OneEmail == {e1}
OnePurger == {p1}
MCAttached == {e1}
MCStripped == {e1}
AnyBackend == {"local", "s3"}

-----------------------------------------------------------------------------

\* Bodies are read back as they were saved, under every algorithm that a
\* configuration may name, and so are attachments; only one whose own name ends like
\* a compressed key is not, and only if nothing is compressed.
ASSUME ReadsWhatWasSaved ==
  \A algorithm \in {"zstd", "ZSTD", "gzip", "none", "lz4"}, suffix \in {".eml", ".pdf", ".gz", ".zst"} :
    LET object == Compressed("data", algorithm, suffix) IN
    Decompressed(object) = "data" <=>
      ~(Lower(algorithm) \in {"none", "lz4"} /\ suffix \in {".gz", ".zst"})

MCUrl(scheme) == [scheme |-> scheme, path |-> "picture"]
InStyle(scheme, matched) == [url |-> MCUrl(scheme), matched |-> matched]
MCNode == [tag : {"img", "div", "style", "source"},
           src : {NoUrl, MCUrl("https"), MCUrl("data"), MCUrl("//")},
           srcset : {<<>>, <<MCUrl("http"), MCUrl("")>>},
           style : {{}, {InStyle("http", TRUE), InStyle("cid", TRUE)},
                    {InStyle("https", FALSE), InStyle("https", TRUE)}}]
\* The URLs of an element, of its style those that cssURLRe matches.
Urls(n) ==
  {n.src} \cup {n.srcset[i] : i \in DOMAIN n.srcset} \cup {u.url : u \in {v \in n.style : v.matched}}
MCPart == [type : {"text/html", "text/plain", "image/png"}, attached : BOOLEAN, text : {"", "x", "y"}]
MCMessage(parts, html) ==
  [readable |-> TRUE, raw |-> "raw", oneClick |-> FALSE, unsubscribe |-> <<>>,
   parts |-> [i \in DOMAIN parts |->
     [type |-> parts[i].type, attached |-> parts[i].attached, text |-> parts[i].text, html |-> html]]]
Answer(addresses) == [addresses |-> addresses, status |-> 200, type |-> "image", size |-> 12]

\* Whatever HTML a message contains, the browser is sent to no other host by an
\* absolute URL in it, unless it is one of a style that cssURLRe does not match, and
\* the proxy fetches every URL that it is sent to instead.
ASSUME ImagesThroughTheProxy ==
  \A n \in MCNode :
    LET part == [type |-> "text/html", attached |-> FALSE, text |-> ""]
        shown == UNION {Urls(m) : m \in FetchBody("key", MCMessage(<<part>>, {n})).html[1]}
    IN /\ \A url \in shown : ~External(url)
       /\ \A url \in {u \in shown : u.scheme = "proxy"} :
            /\ ProxyImage("key", url, <<Answer({"public"})>>) = [status |-> 200, size |-> 10]
            /\ ProxyImage("key", url, <<Answer({"public"}), Answer({"public", "loopback"})>>).status = 502
            /\ ProxyImage("other key", url, <<Answer({"public"})>>).status = 400

\* A message of two parts that are no attachments is searched by the text that it
\* shows, unless that text comes from its HTML; one with text in it shows something.
ASSUME ShowsWhatIsSearched ==
  \A p, q \in MCPart :
    LET message == MCMessage(<<p, q>>, {})
        body == FetchBody("key", message)
    IN /\ ~p.attached /\ ~q.attached /\ BodyPlain(message) # "" =>
            body.plain = BodyPlain(message) \/ body.html # <<>>
       /\ BodyPlain(message) # "" => body.plain # "" \/ body.html # <<>>
=============================================================================
