-------------------------------- MODULE MCIndexPage --------------------------------
(* The index page, with names that have colons in them. *)
EXTENDS IndexPage

MCParts == {"reg", "envelope", "app_secrets", "secret", "x", "y", "z"}
MCAppTokens == {<<"x">>, <<"x", "y">>}
MCUsernames == {<<"y">>, <<"z">>, <<"y", "z">>}
MCConfigs == {{<<"x">>}, {<<"x", "y">>}, MCAppTokens}
=====================================================================================
