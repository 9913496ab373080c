--------------------------- MODULE MCCachedStore ---------------------------
(* Small instances of the cached store for TLC.                            *)
EXTENDS CachedStore

History    == {"get", "update", "clear"}
Credential == {"get", "put", "remove"}
Settings   == {"get", "update", "replace"}
Access     == {"get", "put", "forget"}
BotOffset  == {"get", "put"}

AllEntries     == {History, Credential, Settings, Access, BotOffset}
=============================================================================
