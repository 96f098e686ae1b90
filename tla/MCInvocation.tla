----------------------------- MODULE MCInvocation -----------------------------
(***************************************************************************)
(* Every command line, with the adapters of the five pipelines.            *)
(***************************************************************************)
EXTENDS Invocation

MCSources ==
  [research |-> <<"arxiv", "openalex">>,
   startups |-> <<"yc">>,
   products |-> <<"hf_spaces", "openrouter", "hf_models">>,
   news     |-> <<"hackernews", "techcrunch", "theverge", "mitreview", "thedecoder">>,
   jobs     |-> <<"remoteok", "workingnomads", "whoishiring", "wellfound", "builtin">>]

MCIndexed == SourcesOf("news") \cup {"whoishiring", "wellfound", "builtin"}
=============================================================================
