----------------------------- MODULE LLMProviders -----------------------------
(***************************************************************************)
(* GeminiProvider, GroqProvider and DeepSeekProvider: what generate makes  *)
(* of the answer to its one post.  The three differ in the path of the     *)
(* content in the response, and in nothing a caller could tell apart.      *)
(***************************************************************************)

\* How post ends.  A status it has no error for, as 400 or 404, is an answer too.
Wire == {"answered", "RateLimitError", "PayloadTooLargeError", "AuthenticationError",
         "NetworkError", "TimeoutErrorPipeline", "ValueError"}

\* The response around the content, and what generate raises for it: the handlers name
\* JSONDecodeError, KeyError and IndexError, so a null or a list where an object belongs
\* escapes them.
WrapperError ==
  [not_json |-> "ParsingError", lacks_content |-> "ParsingError",
   wrong_type |-> "TypeError", null_content |-> "TypeError"]

\* The content, and what generate ends with.
ContentError == [not_json |-> "ParsingError", off_schema |-> "ValidationError", valid |-> "ok"]

Replies == [wire : Wire, wrapper : DOMAIN WrapperError \cup {"content"},
            content : DOMAIN ContentError]

\* A provider without an API key or a model does not post at all.
Generate(hasKey, reply) ==
  IF ~hasKey THEN "AuthenticationError"
  ELSE IF reply.wire # "answered" THEN reply.wire
  ELSE IF reply.wrapper # "content" THEN WrapperError[reply.wrapper]
  ELSE ContentError[reply.content]
=============================================================================
