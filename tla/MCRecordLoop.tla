---------------------------- MODULE MCRecordLoop ----------------------------
(***************************************************************************)
(* Two runs of any two pipelines on three small lists: a and b are the same*)
(* product found twice (one page, so one document, and a shared key), c has*)
(* no fetched document; one record was published last week and changed     *)
(* today, one is invalid, one empty or dated in the future, one too long.  *)
(***************************************************************************)
EXTENDS RecordLoop, TLC

CONSTANTS a, b, c, stale, invalid, empty, long,  \* records
          page, other,                           \* documents
          k1, k2, k3,                            \* unique values
          g1, g2                                 \* repositories

MCRecords == {a, b, c, stale, invalid, empty, long}

Full(t)   == [form |-> "full", at |-> t]
NoDate    == [form |-> "none", at |-> 0]
Now       == Full(0)
LastWeek  == Full(-7)

\* Dated by its page, at the end of the window of news.
GoodDates == [feed |-> [form |-> "partial", at |-> 0], jsonld |-> NoDate, meta |-> Full(-Day),
              modified |-> Now, submitted |-> Now, posted |-> [form |-> "naive", at |-> Skew]]
Good == [text |-> [f \in TextFields |-> "some"], link |-> "http", count |-> "none",
         tier |-> "none", date |-> GoodDates, extracted |-> TRUE]

MCData == [rec \in MCRecords |->
  CASE rec = stale   -> [Good EXCEPT !.date = [GoodDates EXCEPT !["meta"] = LastWeek, !["posted"] = LastWeek]]
    [] rec = invalid -> [Good EXCEPT !.text["company"] = "blank", !.text["body"] = "none",
                                     !.count = "negative", !.tier = "other"]
    [] rec = empty   -> [Good EXCEPT !.extracted = FALSE, !.date["posted"] = Full(Skew + 1)]
    [] rec = long    -> [Good EXCEPT !.text = [f \in TextFields |-> IF f = "body" THEN "nul" ELSE "long"]]
    [] OTHER         -> Good]

MCHash == [rec \in MCRecords |->
  CASE rec \in {a, b, stale, empty} -> page
    [] rec = long -> other
    [] OTHER      -> None]

MCKeys == [rec \in MCRecords |->
  CASE rec = a -> {k1}
    [] rec = b -> {k1, k2}
    [] rec = c -> {k2}
    [] OTHER   -> {k3}]

MCRepo == [rec \in MCRecords |->
  CASE rec \in {a, c} -> g1
    [] rec \in {stale, b} -> g2
    [] OTHER -> None]

MCBatches == {<<a, stale, c>>, <<b, long>>, <<empty, invalid, a>>}

RunSymmetry == Permutations(Runs)
=============================================================================
