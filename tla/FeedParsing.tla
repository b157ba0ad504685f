---------------------------- MODULE FeedParsing ----------------------------
(***************************************************************************)
(* What parse_subscription_document finds in the body of a feed (parser/   *)
(* mod.rs, parser/html.rs, parser/xray.rs, clash.rs).                      *)
(*                                                                         *)
(* A document has a shape (text, yaml, json or html), is an array or not   *)
(* at its top, may be base64 as a whole, and holds servers at places:      *)
(*                                                                         *)
(*   token      a link between white space or quotes                       *)
(*   escaped    a link in a JSON string that escapes its slashes           *)
(*   proxy      an entry of a `proxies:` list                              *)
(*   outbound   a configuration with one Xray outbound                     *)
(*   attribute  a link in quotes inside an HTML tag                        *)
(*   block      a link alone in a textarea, code or pre element            *)
(*   block64    the same, the element's text being base64                  *)
(*   script     a quoted link in a script element                          *)
(*                                                                         *)
(* A server is [id, comma, kind]: its link has a comma inside, or it is    *)
(* one ("ssr") whose Clash entry becomes a link the parser refuses, or one *)
(* ("broken") with no host or port.  What is found is the server, the form *)
(* it was in, and how much of its text: whole, cut at the comma, or run    *)
(* on, up to the next quote of the page.                                   *)
(***************************************************************************)
EXTENDS Naturals, Sequences, SequencesExt, Filtering

Found(server, form, text) ==
    [id |-> server.id, form |-> form, text |-> text, kind |-> server.kind]

(* A link as a token: the scan ends it at a comma.                         *)
Token(item) ==
    Found(item.server, "link", IF item.server.comma THEN "cut" ELSE "whole")
Quoted(item) == Found(item.server, "link", "whole")
Converted(item) == Found(item.server, item.place, "whole")

At(document, places) ==
    Kept(document.items, {item \in ToSet(document.items) : item.place \in places})

Read(items, as(_)) == [i \in DOMAIN items |-> as(items[i])]

(* parse_share_link refuses a link without host or port, and an ssr link   *)
(* made from a Clash entry, whose parameters stand behind the payload and  *)
(* are decoded with it.                                                    *)
ParsesAsLink(uri) ==
    /\ uri.kind # "broken"
    /\ ~(uri.kind = "ssr" /\ uri.form = "proxy")

(* A stage adds the texts nobody saw before and the parser accepts; a text *)
(* is seen even when it is refused.                                        *)
Note(acc, uri) ==
    IF uri \in acc.seen THEN acc
    ELSE [seen |-> acc.seen \cup {uri},
          list |-> IF ParsesAsLink(uri) THEN Append(acc.list, uri) ELSE acc.list]

Collect(found, uris) ==
    LET after[n \in 0 .. Len(uris)] ==
            IF n = 0 THEN found ELSE Note(after[n - 1], uris[n])
    IN  after[Len(uris)]

Nothing == [seen |-> {}, list |-> <<>>]
Accepted(uris) == Collect(Nothing, uris).list

(* collect_entries_from_text over the text, or over the decoded text.      *)
Tokens(document) == Read(At(document, {"token", "attribute", "script"}), Token)

(* The `proxies:` list, of a mapping only; plain first, then decoded.      *)
ClashProxies(document) ==
    IF document.array THEN <<>>
    ELSE Accepted(Read(At(document, {"proxy"}), Converted))

(* The strings of a JSON or YAML value, with their escapes undone.  The    *)
(* value is not decoded.                                                   *)
StringLeaves(document) ==
    IF document.base64 THEN <<>>
    ELSE Read(At(document, {"token", "escaped"}), Token)

(* A bare link between two quotes of a page is read up to the second one,  *)
(* markup included.                                                        *)
RunOns(document) ==
    LET quotes(i) == document.items[i].place \in {"attribute", "script"}
        between(i) == /\ document.items[i].place = "block"
                      /\ \E a \in 1 .. i - 1 : quotes(a)
                      /\ \E b \in i + 1 .. Len(document.items) : quotes(b)
        runOn(i) == Found(document.items[i].server, "link", "runon")
    IN  SetToSeq({runOn(i) : i \in {j \in DOMAIN document.items : between(j)}})

AttributeLinks(document) ==
    Read(At(document, {"attribute", "script"}), Quoted) \o RunOns(document)

(* Each element as base64, then as it is.                                  *)
BlockLinks(document) ==
    Read(At(document, {"block64"}), Token) \o Read(At(document, {"block"}), Token)

ScriptLinks(document) == Read(At(document, {"script"}), Token)

HtmlLinks(document) ==
    IF document.shape # "html" \/ document.base64 THEN <<>>
    ELSE Accepted(AttributeLinks(document) \o BlockLinks(document)
                  \o ScriptLinks(document))

(* The outbounds of every configuration, if the first has some.            *)
XrayLinks(document) ==
    IF document.array /\ document.items[1].place # "outbound" THEN <<>>
    ELSE Accepted(Read(At(document, {"outbound"}), Converted))

(* Mutant: a structured stage runs only while nothing was found.           *)
ParseWhenNothingFound(document) ==
    LET text == Collect(Nothing, Tokens(document))
        unlessFound(found, uris) ==
            IF found.list = <<>> THEN Collect(found, uris) ELSE found
        clash == unlessFound(text, ClashProxies(document))
        leaves == Collect(clash, StringLeaves(document))
        html == unlessFound(leaves, HtmlLinks(document))
    IN  unlessFound(html, XrayLinks(document)).list

(* The stages share one seen set; none waits for another to find nothing.  *)
ParseSubscriptionDocument(document) ==
    LET text == Collect(Nothing, Tokens(document))
        clash == Collect(text, ClashProxies(document))
        leaves == Collect(clash, StringLeaves(document))
        html == Collect(leaves, HtmlLinks(document))
    IN  Collect(html, XrayLinks(document)).list

=============================================================================
