------------------------------ MODULE Reading ------------------------------
(***************************************************************************)
(* How a stored message is shown to its user (internal/mail/mail.go and    *)
(* rewrite.go), and how its images are fetched for him (internal/proxy,    *)
(* internal/web/proxy_handlers.go): what is compressed is decompressed     *)
(* again, the body is picked from the parts, sanitized, and its images go  *)
(* through the proxy.                                                      *)
(*                                                                         *)
(* An object of the store is its data, the codecs applied to it and the    *)
(* suffix of its key.  HTML is the set of its elements, however nested.    *)
(***************************************************************************)
EXTENDS Naturals, Sequences

LOCAL First(seq, otherwise) == IF seq = <<>> THEN otherwise ELSE seq[1]

-----------------------------------------------------------------------------
(* Compression *)

\* strings.ToLower, on the algorithms a configuration may name.
Lower(algorithm) == IF algorithm = "ZSTD" THEN "zstd" ELSE IF algorithm = "GZIP" THEN "gzip" ELSE algorithm

Suffix == [zstd |-> ".zst", gzip |-> ".gz"]

\* CompressData and the key its callers build: keySuffix is how the key would end
\* without compression.  An algorithm that is not known is none.
Compressed(data, algorithm, keySuffix) ==
  LET codec == Lower(algorithm) IN
  IF codec \in DOMAIN Suffix
  THEN [data |-> data, codec |-> codec, suffix |-> Suffix[codec]]
  ELSE [data |-> data, codec |-> "none", suffix |-> keySuffix]

\* DecompressReader: the suffix of the key decides, whatever is stored there.
Decompressed(object) ==
  IF object.suffix \notin {Suffix[codec] : codec \in DOMAIN Suffix} THEN object.data
  ELSE IF \E codec \in DOMAIN Suffix : object.codec = codec /\ object.suffix = Suffix[codec]
  THEN object.data ELSE "something else"

-----------------------------------------------------------------------------
(* HTML: an element has a tag, the URLs of its src ("" if it has none), of its  *)
(* srcset and of its style: the attribute, or the text of a style element.  A   *)
(* URL has a scheme, "" if it is relative, "//" if only its scheme is left out;  *)
(* one of the proxy is signed.  A style's is matched if it is written as         *)
(* cssURLRe has it, url(http...) in small letters: one that is escaped, in       *)
(* capitals or in another function of CSS is not.                                *)

Elements ==
  {"div", "span", "p", "br", "hr", "center", "h1", "h2", "h3", "h4", "h5", "h6", "ul", "ol", "li",
   "dl", "dt", "dd", "blockquote", "pre", "code", "tt", "b", "i", "u", "s", "em", "strong", "small",
   "big", "sub", "sup", "font", "section", "article", "header", "footer", "figure", "figcaption",
   "table", "thead", "tbody", "tfoot", "tr", "th", "td", "caption", "col", "colgroup", "a", "img"}

Schemes == {"http", "https", "mailto", "data", "cid", "", "//"}

NoUrl == [scheme |-> "", path |-> ""]

\* newEmailPolicy: elements that are not allowed go, and so do srcset and every
\* src that is not an image's or has another scheme; styles stay.
Sanitized(html) ==
  {[n EXCEPT !.srcset = <<>>,
             !.src = IF n.tag = "img" /\ @.scheme \in Schemes THEN @ ELSE NoUrl] :
     n \in {m \in html : m.tag \in Elements}}

\* isExternalHTTP
External(url) == url.scheme \in {"http", "https"}

\* SignURL
SignURL(key, url) == [scheme |-> "proxy", path |-> url, sig |-> key]

\* What becomes of a URL in src or srcset, and of one that is matched in a style.
Proxied(key, url) == IF External(url) THEN SignURL(key, url) ELSE url

\* rewriteImgNode, rewriteSrcset
RewriteImg(key, n) ==
  [n EXCEPT !.src = Proxied(key, @), !.srcset = [i \in DOMAIN @ |-> Proxied(key, @[i])]]

\* rewriteStyleAttr, rewriteStyleNode, rewriteCSSURLs
RewriteStyle(key, n) ==
  [n EXCEPT !.style =
     {[url |-> IF u.matched THEN Proxied(key, u.url) ELSE u.url, matched |-> u.matched] : u \in @}]

\* rewriteForPrivacy, walkNode
RewriteForPrivacy(key, html) ==
  {RewriteStyle(key, IF n.tag = "img" THEN RewriteImg(key, n) ELSE n) : n \in html}

-----------------------------------------------------------------------------
(* The image proxy.  What a host answers: its addresses, where it redirects to, *)
(* and else the status, the kind of content and its size in MiB.               *)

Private == {"loopback", "private", "link local"}

\* ssrfSafeDialContext: every address that the name has, before any is dialled.
Dialable(addresses) == addresses # {} /\ addresses \cap Private = {}

\* The hosts asked, one after the other: at most five.
Followed(answers) ==
  Len(answers) <= 5 /\ \A i \in DOMAIN answers : Dialable(answers[i].addresses)

\* handleProxyImage: 10 MiB of an image at most.
ProxyImage(key, request, answers) ==
  LET last == answers[Len(answers)] IN
  CASE request.sig # key \/ ~External(request.path) -> [status |-> 400, size |-> 0]
    [] ~Followed(answers) -> [status |-> 502, size |-> 0]
    [] last.status = 304 -> [status |-> 304, size |-> 0]
    [] last.type # "image" -> [status |-> 415, size |-> 0]
    [] OTHER -> [status |-> 200, size |-> IF last.size > 10 THEN 10 ELSE last.size]

-----------------------------------------------------------------------------
(* A message, if it can be parsed, is a header and a sequence of parts, each    *)
(* with its type and what its text or HTML is; the latter is plain without tags. *)

LOCAL OfType(parts, type) == SelectSeq(parts, LAMBDA p : p.type = type)
LOCAL WithText(parts) == SelectSeq(parts, LAMBDA p : p.text # "")

\* FetchBody: the first HTML, rewritten, and the first text that is not empty, of
\* attachments too.  A message that cannot be parsed is shown as it is.
FetchBody(key, message) ==
  IF ~message.readable THEN [html |-> <<>>, plain |-> message.raw]
  ELSE LET html == OfType(message.parts, "text/html") IN
       [html |-> IF html = <<>> THEN <<>> ELSE <<RewriteForPrivacy(key, Sanitized(html[1].html))>>,
        plain |-> First(WithText(OfType(message.parts, "text/plain")), [text |-> ""]).text]

\* extractBodyPlain, which is searched and filtered: the first text that is no
\* attachment, else the first such HTML that has any.
BodyPlain(message) ==
  LET inline == SelectSeq(message.parts, LAMBDA p : ~p.attached)
      plain == OfType(inline, "text/plain")
      html == WithText(OfType(inline, "text/html"))
  IN IF ~message.readable THEN "" ELSE First(plain \o html, [text |-> ""]).text

\* FetchUnsubscribeInfo: the first of each kind in the List-Unsubscribe header.
UnsubscribeInfo(message) ==
  LET urls(schemes) == SelectSeq(message.unsubscribe, LAMBDA u : u.scheme \in schemes)
  IN [url |-> First(urls({"http", "https"}), NoUrl),
      mailto |-> First(urls({"mailto"}), NoUrl),
      oneClick |-> message.oneClick]

\* handleEmailUnsubscribe: a POST to it, also to one that is not for one click.
Unsubscribe(message) ==
  IF message.readable /\ UnsubscribeInfo(message).url # NoUrl
  THEN {UnsubscribeInfo(message).url} ELSE {}
=============================================================================
