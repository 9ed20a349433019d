--------------------------- MODULE MCProfileStore ---------------------------
EXTENDS ProfileStore, TLC

CONSTANTS p1, p2, p3, v1, v2

MCContents == Profiles \X (0..MaxPlays)
MCOrder == <<"saves", "mods", "config">>
MCFirstFiles ==
    p1 :> [saves |-> {"world"}, mods |-> {"list", "mod"}, config |-> {"settings"}] @@
    p2 :> [saves |-> {"world", "other"}, mods |-> {"list"}, config |-> {"settings"}]
MCFirstVersion == p1 :> v1 @@ p2 :> v2
=============================================================================
