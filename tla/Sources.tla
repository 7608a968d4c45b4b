-------------------------------- MODULE Sources --------------------------------
(***************************************************************************)
(* What one fetch of a source brings: the page of Habr, the list of        *)
(* KudaGo, the RSS feeds.  Ingestion takes the drafts from here.           *)
(*                                                                         *)
(* A card of a page, or an entry of a feed, is whether it has a title and  *)
(* where it leads to; a draft is where it leads to.  A feed without an     *)
(* address, one that fails and one that cannot be read are empty.          *)
(***************************************************************************)
EXTENDS Naturals, Sequences, SequencesExt

CONSTANTS NoLink,   \* leads nowhere
          Address   \* Address[link]: the link with the site in front when it has none

Usable(card) == card.title /\ card.link # NoLink

(* At most limit events of the page, but one in any case, each once.       *)
ParseHabr(cards, limit) ==
  FoldLeft(LAMBDA drafts, card :
             IF \/ drafts # <<>> /\ Len(drafts) >= limit
                \/ ~Usable(card) \/ Address[card.link] \in Range(drafts)
             THEN drafts ELSE Append(drafts, Address[card.link]),
           <<>>, cards)

(* Of the first limit events those with a title, the link may be missing.  *)
ParseKudaGo(items, limit) ==
  LET titled == SelectSeq(SubSeq(items, 1, Min({limit, Len(items)})), LAMBDA item : item.title)
  IN [i \in DOMAIN titled |-> titled[i].link]

(* The share of one feed.                                                  *)
PerFeed(feeds, limit) == Max({1, limit \div Max({1, Len(feeds)})})

(* What one more feed adds to the drafts.                                  *)
Entries(drafts, feed, share, limit) ==
  FoldLeft(LAMBDA out, entry :
             IF \/ Len(out) >= Len(drafts) + share \/ Len(out) >= limit
                \/ ~Usable(entry) \/ entry.link \in Range(out)
             THEN out ELSE Append(out, entry.link),
           drafts, feed)

FetchRss(feeds, limit) ==
  FoldLeft(LAMBDA drafts, feed : Entries(drafts, feed, PerFeed(feeds, limit), limit), <<>>, feeds)

(* Without feeds there is no such source.                                  *)
Registry(feeds) == {"habr", "kudago"} \cup (IF feeds = <<>> THEN {} ELSE {"rss"})

(* A page that cannot be had, or is no JSON, brings nothing.  What the     *)
(* parsers themselves fail at makes the load of that source raise before   *)
(* anything is written, and is left out.                                   *)
Fetched(source, pages, limit) ==
  CASE source = "habr" -> {<<>>, ParseHabr(pages[1], limit)}
    [] source = "kudago" -> {<<>>, ParseKudaGo(pages[1], limit)}
    [] OTHER -> {FetchRss(pages, limit)}
================================================================================
