------------------------------- MODULE MCNews -------------------------------
(* News for TLC: a story that first comes without a summary and later moves *)
(* from url 1 to url 2, where another one may have been before it, and a    *)
(* newer one that cannot be translated.                                     *)
EXTENDS News

CONSTANTS g1

Story(u, g, t, s) == [url |-> u, guid |-> g, text |-> t, summary |-> s]
FeedItems == {Story(1, g1, 1, FALSE), Story(1, g1, 2, TRUE), Story(2, g1, 2, TRUE),
              Story(2, None, 1, TRUE), Story(3, None, 1, TRUE)}
=============================================================================
