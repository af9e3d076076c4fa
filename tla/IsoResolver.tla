------------------------------- MODULE IsoResolver -----------------------------
(***************************************************************************)
(* The software-download service: a page is scraped for an edition, a      *)
(* session is tagged, the SKU of a language looked up in at most           *)
(* skuInfoMaxAttempts tries, a signed link asked for, and the ISO it names *)
(* streamed to a temporary file and renamed.  Callers run concurrently     *)
(* over one destination directory; Microsoft's side answers each request   *)
(* as it likes within what it publishes.                                   *)
(***************************************************************************)
EXTENDS Integers, Sequences, FiniteSets, SequencesExt

CONSTANTS
  Callers,
  Requests,            \* [by: "id", "name" or "link", name, edition, arch, lang, dir, size]
  Pages,               \* sequence of [arch, products], a product being [edition, labels, arch]
  SkuLists,            \* what the connector may answer: sequences of [id, tag, exact, part]
  Links,               \* the links it may answer with: [file, token, expires, content]
  IsoSize,             \* the size of each content
  skuInfoMaxAttempts,
  MaxCalls,            \* bound: calls made
  MaxTime              \* bound of the clock

\* Lists are sequences, an expiry is a time (0: none), and at least one try is made.
ASSUME IsoResolverAssumption ==
  /\ skuInfoMaxAttempts \in Nat \ {0}
  /\ Pages \in Seq(ToSet(Pages))
  /\ \A page \in ToSet(Pages) : page.products \in Seq(ToSet(page.products))
  /\ \A skus \in SkuLists : skus \in Seq(ToSet(skus))
  /\ \A link \in Links : link.expires \in Nat

VARIABLES
  call,      \* per caller: [pc, req, ...]
  tagged,    \* the sessions that went through vlscppe
  now,
  isos,      \* destination directory: file name -> content
  temps,     \* callers whose temporary file exists
  calls

isoVars == <<call, tagged, now, isos, temps, calls>>

NoLink == [file |-> "", token |-> "", expires |-> 0, content |-> 0]
NoRequest == [by |-> "", name |-> "", edition |-> 0, arch |-> "", lang |-> "", dir |-> FALSE, size |-> 0]
Fresh == [pc |-> "idle", req |-> NoRequest, page |-> 1, found |-> <<>>, product |-> <<>>, session |-> 0, attempt |-> 0,
          skus |-> <<>>, sku |-> <<>>, link |-> NoLink, arch |-> "", opened |-> -1, path |-> "", err |-> ""]

IsoInit ==
  /\ call = [c \in Callers |-> Fresh]
  /\ tagged = {} /\ now = 0 /\ calls = 0
  /\ isos = <<>> /\ temps = {}

Becomes(c, r) == call' = [call EXCEPT ![c] = r]
Fails(c, what) == Becomes(c, [call[c] EXCEPT !.pc = "done", !.err = what])

\* GetByID and GetByName; Download is given a link somebody has resolved.
Begin(c, r) ==
  /\ call[c].pc \in {"idle", "done"} /\ calls < MaxCalls
  /\ calls' = calls + 1
  /\ CASE r.by = "name" -> Becomes(c, [Fresh EXCEPT !.pc = "scrape", !.req = r, !.session = calls + 1])
       [] r.by = "id" -> Becomes(c, [Fresh EXCEPT !.pc = "tag", !.req = r, !.session = calls + 1,
                                                  !.product = <<[edition |-> r.edition, labels |-> {}, arch |-> r.arch]>>])
       [] OTHER -> /\ call[c].link # NoLink
                   /\ Becomes(c, [Fresh EXCEPT !.pc = "open", !.req = r, !.link = call[c].link, !.arch = call[c].arch,
                                               !.session = call[c].session])
  /\ UNCHANGED <<tagged, now, isos, temps>>

\* Get: one page after the other, then findProduct.  A product of another
\* architecture is passed over when one is picked from the list.
Scrape(c) ==
  /\ call[c].pc = "scrape"
  /\ LET want == call[c].req.arch
         page == Pages[call[c].page]
         Other(a) == want # "" /\ a # "" /\ a # want
         all == call[c].found \o IF Other(page.arch) THEN <<>> ELSE page.products
         first == SelectInSeq(all, LAMBDA p : ~Other(p.arch) /\ call[c].req.name \in p.labels)
         next == [call[c] EXCEPT !.found = all, !.page = @ + 1]
     IN  \/ ~Other(page.arch) /\ Fails(c, "fetch page")
         \/ call[c].page < Len(Pages) /\ Becomes(c, next)
         \/ call[c].page = Len(Pages) /\ first = 0 /\ Fails(c, "no product")
         \/ call[c].page = Len(Pages) /\ first # 0
              /\ Becomes(c, [next EXCEPT !.pc = "tag", !.product = <<all[first]>>])
  /\ UNCHANGED <<tagged, now, isos, temps, calls>>

\* whitelistSession: the tag is required, the ov-df exchange after it is made
\* for what it is worth.
Tag(c) ==
  /\ call[c].pc = "tag"
  /\ \/ Fails(c, "vlscppe tag") /\ UNCHANGED tagged
     \/ Becomes(c, [call[c] EXCEPT !.pc = "ovdf"]) /\ tagged' = tagged \cup {call[c].session}
  /\ UNCHANGED <<now, isos, temps, calls>>

CompleteOVDF(c) ==
  /\ call[c].pc = "ovdf"
  /\ Becomes(c, [call[c] EXCEPT !.pc = "sku"])
  /\ UNCHANGED <<tagged, now, isos, temps, calls>>

\* As selectSKU, in one pass.
FirstMatch(skus, lang) ==
  LET match == SelectInSeq(skus, LAMBDA s : lang \in s.exact \cup s.part)
  IN  IF match = 0 THEN <<>> ELSE <<skus[match]>>
\* Exact matches come before parts of a name, in the order of the list.
selectSKU(skus, lang) ==
  LET exact == SelectInSeq(skus, LAMBDA s : lang \in s.exact)
      part == SelectInSeq(skus, LAMBDA s : lang \in s.part)
  IN  IF exact # 0 THEN <<skus[exact]>> ELSE IF part # 0 THEN <<skus[part]>> ELSE <<>>

\* resolveLanguage: a failed request, an answer that does not decode, that
\* carries an error or no SKU is tried again; a missing language is not.
SkuBad(c) ==
  /\ call[c].pc = "sku"
  /\ IF call[c].attempt + 1 < skuInfoMaxAttempts
     THEN Becomes(c, [call[c] EXCEPT !.attempt = @ + 1])
     ELSE Becomes(c, [call[c] EXCEPT !.attempt = @ + 1, !.pc = "done", !.err = "resolve language"])
  /\ UNCHANGED <<tagged, now, isos, temps, calls>>

SkuAnswered(c) ==
  /\ call[c].pc = "sku" /\ call[c].session \in tagged
  /\ \E skus \in SkuLists :
       LET sku == selectSKU(skus, call[c].req.lang)
           next == [call[c] EXCEPT !.attempt = @ + 1, !.skus = skus, !.sku = sku]
       IN  Becomes(c, IF sku = <<>> THEN [next EXCEPT !.pc = "done", !.err = "language"] ELSE [next EXCEPT !.pc = "link"])
  /\ UNCHANGED <<tagged, now, isos, temps, calls>>

\* The token in the file's name outranks the product's architecture.
ArchOfLink(product, link) == IF link.token # "" THEN link.token ELSE product.arch

\* resolveLink, and the rest of resolve up to the download.
ResolveLink(c) ==
  /\ call[c].pc = "link"
  /\ \/ Fails(c, "fetch link")
     \/ \E link \in Links :
          LET arch == ArchOfLink(call[c].product[1], link)
              want == call[c].req.arch
              next == [call[c] EXCEPT !.link = link, !.arch = arch]
          IN  IF want # "" /\ arch # "" /\ arch # want THEN Fails(c, "other arch")
              ELSE Becomes(c, [next EXCEPT !.pc = IF call[c].req.dir THEN "open" ELSE "done"])
  /\ UNCHANGED <<tagged, now, isos, temps, calls>>

Expired(c) == call[c].link.expires # 0 /\ now > call[c].link.expires

\* downloadOne up to the body: an expired link is refused, a file of the size
\* the link was given is taken as it is, then the request and a temporary file.
Open(c) ==
  /\ call[c].pc = "open"
  /\ LET link == call[c].link
         there == link.file \in DOMAIN isos /\ call[c].req.size > 0 /\ IsoSize[isos[link.file]] = call[c].req.size
     IN  \/ Expired(c) /\ Fails(c, "expired") /\ UNCHANGED temps
         \/ ~Expired(c) /\ there /\ Becomes(c, [call[c] EXCEPT !.pc = "done", !.path = link.file]) /\ UNCHANGED temps
         \/ ~Expired(c) /\ ~there /\ Fails(c, "download") /\ UNCHANGED temps
         \/ ~Expired(c) /\ ~there /\ Becomes(c, [call[c] EXCEPT !.pc = "body", !.opened = now]) /\ temps' = temps \cup {c}
  /\ UNCHANGED <<tagged, now, isos, calls>>

\* io.Copy, Close and Rename; whatever fails, the temporary file is removed.
Body(c) ==
  /\ call[c].pc = "body"
  /\ temps' = temps \ {c}
  /\ \/ Fails(c, "stream") /\ UNCHANGED isos
     \/ LET link == call[c].link IN
        /\ isos' = [n \in DOMAIN isos \cup {link.file} |-> IF n = link.file THEN link.content ELSE isos[n]]
        /\ Becomes(c, [call[c] EXCEPT !.pc = "done", !.path = link.file])
  /\ UNCHANGED <<tagged, now, calls>>

Tick ==
  /\ now < MaxTime /\ \E c \in Callers : call[c].pc \in {"open", "body", "done"} /\ call[c].link # NoLink
  /\ now' = now + 1
  /\ UNCHANGED <<call, tagged, isos, temps, calls>>

CallStep(c) ==
  \/ \E r \in Requests : Begin(c, r)
  \/ Scrape(c) \/ Tag(c) \/ CompleteOVDF(c) \/ SkuBad(c) \/ SkuAnswered(c) \/ ResolveLink(c) \/ Open(c) \/ Body(c)

IsoNext == Tick \/ \E c \in Callers : CallStep(c)
================================================================================
