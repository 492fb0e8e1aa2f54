------------------------ MODULE MCWatchlistVersions ------------------------
(* TLC instances of WatchlistVersions.                                     *)
EXTENDS WatchlistVersions, TLC

CONSTANTS c1, c2, c3, a, b, EU

Upload(list, content) == [op |-> "upload", list |-> list, content |-> content]
ScreenOne == [op |-> "screen", list |-> OFAC_SDN, content |-> a]

(* Two uploaders that send the same contents, one of them for two lists,   *)
(* and a third client that screens.                                        *)
Concurrent ==
  (c1 :> <<Upload(OFAC_SDN, a), Upload(OFAC_SDN, b), ScreenOne>>)
  @@ (c2 :> <<Upload(EU, a), Upload(OFAC_SDN, b), Upload(OFAC_SDN, a),
              ScreenOne>>)
  @@ (c3 :> <<ScreenOne, ScreenOne>>)
=============================================================================
