----------------------------- MODULE MCSettings -----------------------------
(* A lamp with a pin, a network name, and keys of every shape: a name at     *)
(* the top, one below an object, one below a value, a doubled and a trailing *)
(* '/', a last name of one character, and a step that is missing.            *)
EXTENDS Settings

MCDefault == (<<>> :> Obj) @@ (<<"wifi_ssid">> :> Text("home"))
             @@ (<<"lamp">> :> Obj) @@ (<<"lamp", "pin">> :> Number("4"))
MCKeys == {<<"wifi_ssid">>, <<"lamp", "pin">>, <<"lamp", "", "pin">>,
           <<"lamp", "pin", "url">>, <<"lamp", "">>, <<"lamp", "x">>,
           <<"nope", "lamp">>, <<"lamp">>}
MCValues == {<<"i5", "b", "c">>, <<"s">>, <<"5">>}
=============================================================================
