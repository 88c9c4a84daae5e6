---------------------------- MODULE MCErrorRelay ---------------------------
\* Small instance of ErrorRelay for TLC: every status code, every text code of
\* the table and one outside it, two metadata items, three hops.
EXTENDS ErrorRelay

CONSTANTS m1, m2

MCCustomCode == {"quota"}
MCMetaItem   == {m1, m2}

Answer(contentType, root, code, msg, strings, twirpStatus) ==
  [status |-> 502, contentType |-> contentType,
   body   |-> [root |-> root, code |-> code, msg |-> msg, meta |-> {m1},
               twirpStatus |-> twirpStatus, metaStrings |-> strings,
               extra |-> FALSE]]

\* A proxy's page, JSON of each wrong shape, a Twirp error of another server,
\* and one whose metadata has a twirp_status key.
MCForeignResponse ==
  { Answer("other", "none", NoPayload, "absent", TRUE, NoPayload),
    Answer("application/json", "other", NoPayload, "absent", TRUE, NoPayload),
    Answer("application/json", "object", NoPayload, "text", TRUE, NoPayload),
    Answer("application/json", "object", "aborted", "absent", TRUE, NoPayload),
    Answer("application/json", "object", "aborted", "text", FALSE, NoPayload),
    Answer("application/json", "object", "aborted", "text", TRUE, NoPayload),
    Answer("application/json", "object", "aborted", "text", TRUE, "malformed") }
=============================================================================
