------------------------------ MODULE Admission ------------------------------
(***************************************************************************)
(* What decides whether a parsed record is stored: the schema of its       *)
(* vertical, the freshness gate of news and jobs, and the constraints of   *)
(* its table.  Pure functions of the record; the loops that call them are  *)
(* in RecordLoop.                                                          *)
(*                                                                         *)
(* A text stands for what these three tell apart, and a date for its form  *)
(* and its distance from the run's reference_time, which is 0.             *)
(***************************************************************************)
EXTENDS Integers

CONSTANTS Day,          \* the window of news: 24 hours
          Window,       \* freshness_window_hours, for jobs
          Skew,         \* clock_skew_tolerance_seconds, for jobs
          SizesChecked  \* PostgreSQL checks the sizes of its columns, SQLite does not

ASSUME ClockAssumption == Day \in Nat /\ Window \in Nat /\ Skew \in Nat
ASSUME SizesAssumption == SizesChecked \in BOOLEAN

Tables == {"research", "news", "startups", "products", "jobs"}

-----------------------------------------------------------------------------
\* Records.  "long" is longer than the VARCHAR of its column, "nul" contains a NUL, which
\* PostgreSQL stores in no text; "huge" does not fit an INTEGER.  A date is "full" when it
\* is complete and names its zone, "naive" without the zone, "partial" without the time.

Texts   == {"none", "blank", "some", "long", "nul"}
Numbers == {"none", "negative", "some", "huge"}
Links   == {"none", "other", "http"}
Tiers   == {"none", "other", "FREE", "FREEMIUM", "PAID", "ENTERPRISE"}
Dates   == [form : {"none", "partial", "naive", "full"}, at : Int]

\* name is title, entity_name or startup_name; id is the external identifier, key the
\* dedup_key, body the full_text_location.
TextFields == {"name", "company", "body", "product", "id", "key", "role"}
DateFields == {"feed", "jsonld", "meta", "modified", "submitted", "posted"}

Datum == [text : [TextFields -> Texts], link : Links, count : Numbers, tier : Tiers,
          date : [DateFields -> Dates], extracted : BOOLEAN]

-----------------------------------------------------------------------------
\* Freshness: both ends of the window are fresh.

IsFresh(at, window, skew) == -window <= at /\ at <= skew

\* News accepts complete timestamps with a zone only.
Timestamp(date) == date.form = "full"

\* A faulty variant: an article without a publication date is dated by its last change.
PublicationOrChange(d) ==
  IF Timestamp(d.date["feed"]) THEN "feed"
  ELSE IF Timestamp(d.date["modified"]) THEN "modified" ELSE "none"

\* The publication date of an article: the feed's, else one labelled as such in the page.
\* The date of a change or of a submission to Hacker News is never looked at.
PublicationField(d) ==
  IF Timestamp(d.date["feed"]) THEN "feed"
  ELSE IF Timestamp(d.date["jsonld"]) THEN "jsonld"
  ELSE IF Timestamp(d.date["meta"]) THEN "meta"
  ELSE "none"

-----------------------------------------------------------------------------
\* The schemas.

Filled(text) == text \in {"some", "long", "nul"}

\* A faulty variant: no lower bound on counts.
AnyCount(n) == TRUE

Counts(n) == n # "negative"

ResearchAccepts(d) == d.link = "http" /\ Filled(d.text["name"]) /\ Counts(d.count)
NewsAccepts(d) ==
  /\ d.link = "http" /\ Filled(d.text["name"]) /\ Filled(d.text["body"])
  /\ PublicationField(d) # "none"
JobAccepts(d) ==
  /\ d.link = "http" /\ Filled(d.text["name"]) /\ Filled(d.text["company"])
  /\ d.date["posted"].form # "none"
StartupAccepts(d) == d.link = "http" /\ Filled(d.text["name"]) /\ Counts(d.count)
ProductAccepts(d) == d.link = "http" /\ Filled(d.text["name"]) /\ d.tier # "other"

Accepts(t, d) ==
  \/ t = "research" /\ ResearchAccepts(d)
  \/ t = "news"     /\ NewsAccepts(d)
  \/ t = "jobs"     /\ JobAccepts(d)
  \/ t = "startups" /\ StartupAccepts(d)
  \/ t = "products" /\ ProductAccepts(d)

\* A naive posted_at is taken for UTC.
Fresh(t, d) ==
  /\ t = "news" => IsFresh(d.date[PublicationField(d)].at, Day, 0)
  /\ t = "jobs" => IsFresh(d.date["posted"].at, Window, Skew)

\* What the gates make of a record.
Kinds == {"good", "invalid", "stale", "empty"}

KindOf(t, d) ==
  IF t = "news" /\ ~d.extracted THEN "empty"
  ELSE IF ~Accepts(t, d) THEN "invalid"
  ELSE IF ~Fresh(t, d) THEN "stale"
  ELSE "good"

-----------------------------------------------------------------------------
\* The tables: what a column takes.

Varchar(text) == SizesChecked => text \notin {"long", "nul"}
Text(text)    == SizesChecked => text # "nul"
NotNull(x)    == x # "none"
Natural(n)    == n # "negative" /\ (SizesChecked => n # "huge")

ResearchFits(d) ==
  /\ Text(d.text["name"]) /\ NotNull(d.text["name"])
  /\ NotNull(d.link)
  /\ Varchar(d.text["id"]) /\ Natural(d.count)
NewsFits(d) ==
  /\ Text(d.text["name"]) /\ NotNull(d.text["name"])
  /\ NotNull(d.link) /\ Text(d.text["body"])
  /\ PublicationField(d) # "none"
JobFits(d) ==
  /\ Varchar(d.text["company"]) /\ NotNull(d.text["company"])
  /\ Text(d.text["name"]) /\ NotNull(d.text["name"])
  /\ NotNull(d.link) /\ NotNull(d.date["posted"].form) /\ Varchar(d.text["role"])
StartupFits(d) ==
  /\ Varchar(d.text["name"]) /\ NotNull(d.text["name"])
  /\ NotNull(d.link) /\ Natural(d.count)
ProductFits(d) ==
  /\ Varchar(d.text["name"]) /\ NotNull(d.text["name"])
  /\ \A f \in {"product", "id", "key"} : Varchar(d.text[f])
  /\ NotNull(d.link) /\ d.tier # "other"

Fits(t, d) ==
  \/ t = "research" /\ ResearchFits(d)
  \/ t = "news"     /\ NewsFits(d)
  \/ t = "jobs"     /\ JobFits(d)
  \/ t = "startups" /\ StartupFits(d)
  \/ t = "products" /\ ProductFits(d)

\* A value the database has no room for: only these may be refused after the schema.
Unfit(d) == (\E f \in TextFields : d.text[f] \in {"long", "nul"}) \/ d.count = "huge"
=============================================================================
