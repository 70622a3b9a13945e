--------------------------- MODULE MCWebViewInput ---------------------------
EXTENDS WebViewInput

\* The events that differ in what the dispatchers do with them.
MCMouseEvent ==
    {[type |-> "kPressedMouseEventType", button |-> TRUE],
     [type |-> "kMovedMouseEventType", button |-> FALSE],
     [type |-> "kWheelMouseEventType", button |-> FALSE]}

MCTouchEvent == {[type |-> "kTouchStart"], [type |-> "kTouchCancel"]}

MCKeyEvent == {[type |-> "kKeyDownEventType"], [type |-> "kKeyUpEventType"]}

-----------------------------------------------------------------------------

Of(type, v) == [type |-> type, v |-> v]

\* A device of the list, its user agent cut after "Mozilla/5.0 (".
Entry(user_agent, device_scale_factor, touch) ==
    [userAgent |-> Of("string", <<"Mozilla/5.0 (">> \o user_agent),
     width |-> Of("int", 412), height |-> Of("int", 732),
     deviceScaleFactor |-> device_scale_factor,
     touch |-> Of("bool", touch), mobile |-> Of("bool", touch)]

Phone == Entry(<<"Lin", "ux; Android 8.0; Pixel 2">>, Of("double", 3), TRUE)

\* The device with `key` of a wrong type.
Malformed(key) == Of("dict", [Phone EXCEPT ![key] = Of("list", <<>>)])

\* A phone, a tablet the tables have no platform for, a laptop whose scale
\* factor is written as an integer, an entry that is no device, and a
\* device for each field that can be malformed.
MCkMobileDevices ==
    Of("dict",
       [k \in DOMAIN Phone |-> Malformed(k)] @@
       [Pixel |-> Of("dict", Phone),
        iPad |-> Of("dict", Entry(<<"iPad; CPU OS 11_0">>, Of("double", 3),
                                  TRUE)),
        Laptop |-> Of("dict", Entry(<<"X11; ", "C", "rOS x86_64">>,
                                    Of("int", 1), FALSE)),
        title |-> Of("string", "devices")])

\* Every entry of the list, a name the list does not have, and a name with
\* a dot, which leads into the entry of a device.
MCDeviceNames ==
    {<<k>> : k \in DOMAIN MCkMobileDevices.v}
        \cup {<<"Nexus">>, <<"Pixel", "userAgent">>}

=============================================================================
