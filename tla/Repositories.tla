----------------------------- MODULE Repositories ------------------------------
(***************************************************************************)
(* The methods of the repositories (repositories.py) as what they read:    *)
(* the cache keys in turn, each with the projection that the parse memo    *)
(* keeps of it (None when the answer is not memoised), and whether a page  *)
(* just fetched is archived.  A key stands for its family: only keys of    *)
(* one company, one date range and one page are looked at.                 *)
(***************************************************************************)
EXTENDS Sequences

CONSTANT None

Read(key, projection) == [key |-> key, shows |-> projection]
Plain(reads) == [reads |-> reads, archives |-> FALSE]
Archived(reads) == [reads |-> reads, archives |-> TRUE]

resolve == Read("autocomplete", None)
quotePage == <<resolve, Read("stock_data", "fields")>>

search == Plain(<<resolve>>)
quote == Plain(quotePage)
priceHistory == Archived(quotePage \o <<Read("ohlc", "history")>>)
disclosures == Archived(<<Read("announcements", "search")>>)
fulltext == Plain(<<Read("keyword", "fulltext")>>)
detail == Plain(<<Read("disclosure", "detail")>>)
attachment == Plain(<<Read("attachment", None)>>)
profile == Plain(<<resolve, Read("company_info", "profile")>>)
financials == Plain(<<resolve, Read("financials", "financials")>>)
dividendsAndRights == Plain(<<resolve, Read("dividends", None), Read("rights", None)>>)

indices == Plain(<<Read("homepage", "indices")>>)
summary == Plain(<<Read("homepage", "summary")>>)
keyRates == Plain(<<Read("bsp", "rates")>>)
policyRate == Plain(<<Read("bsp", "policy")>>)

Operations ==
    {search, quote, priceHistory, disclosures, fulltext, detail, attachment, profile,
     financials, dividendsAndRights, indices, summary, keyRates, policyRate}

\* The data policy each method names for its keys.
PolicyOf(key) ==
    CASE key \in {"stock_data", "ohlc"} -> "EOD-frozen"
      [] key \in {"disclosure", "attachment"} -> "immutable"
      [] OTHER -> "daily-refresh"

=============================================================================
