---------------------------- MODULE MobileDevice ----------------------------
(***************************************************************************)
(* MobileDevice (chrome/mobile_device.cc): the lookup of a device in the   *)
(* built-in list, the guess of a platform from a user agent and the        *)
(* reduced user agent of a platform, called in any order by the code that  *)
(* sets a session up.  Its callers are not among the sources: the model    *)
(* lets a caller make every call, on a MobileDevice with or without client *)
(* hints, and keeps what the out-parameters hold.                          *)
(*                                                                         *)
(* A string that the code takes apart is the sequence of its pieces, cut   *)
(* where a prefix of GuessPlatform ends, so that base::StartsWith is       *)
(* IsPrefix.  A JSON value is a record of its type and its content.        *)
(***************************************************************************)
EXTENDS Naturals, Sequences, SequencesExt

CONSTANTS
    kMobileDevices,  \* what JSONReader makes of the list of mobile_device_list.h
    DeviceNames,     \* the names a caller asks for, each the path of its parts
    MajorVersions,   \* the browser versions a caller asks a user agent for
    OtherPlatforms,  \* platforms of client hints that the tables do not have
    None             \* nullptr, absl::nullopt

VARIABLES
    mobile_device,       \* the MobileDevice of the caller
    reduced_user_agent,  \* *reduced_user_agent
    platform,            \* *platform
    returned             \* what the last call returned: kOk or the message of
                         \* its error, "true" or "false" for GuessPlatform

device_vars == <<mobile_device, reduced_user_agent, platform, returned>>

ASSUME kMobileDevices.type = "dict"  \* the list is written with the code

Platform(name, unified_name, mobile_support) ==
    [name |-> name, unified_name |-> unified_name,
     mobile_support |-> mobile_support]

\* Chrome OS and Chromium OS have kChromeOSUnifiedPlatformName.
kPlatformsWithReducedUserAgentSupport ==
    <<Platform("Android", <<"Lin", "ux; Android 10; K">>, TRUE),
      Platform("Chrome OS", <<"X11; ", "C", "rOS x86_64 14541.0.0">>, FALSE),
      Platform("Chromium OS", <<"X11; ", "C", "rOS x86_64 14541.0.0">>, FALSE),
      Platform("macOS", <<"Mac", "intosh; Intel Mac OS X 10_15_7">>, FALSE),
      Platform("Windows", <<"Win", "dows NT 10.0; Win64; x64">>, FALSE),
      Platform("Fuchsia", <<"Fuchsia">>, FALSE),
      Platform("Linux", <<"X11; ", "L", "inux x86_64">>, FALSE)>>

\* StringPrintf(kFrozenUserAgentTemplate, ...).
kFrozenUserAgentTemplate(unified_name, major_version, device_compat) ==
    <<"Mozilla/5.0 (">> \o unified_name
        \o <<") AppleWebKit/537.36 (KHTML, like Gecko) Chrome/",
             major_version, ".0.0.0 ">>
        \o device_compat \o <<"Safari/537.36">>

\* A default-constructed MobileDevice.
Empty == [user_agent |-> None, device_metrics |-> None, client_hints |-> None]

-----------------------------------------------------------------------------

\* The value at the end of `path`, each part of it a key of the dictionary
\* the parts before it lead to; None when a part is no key or what it is
\* looked up in is no dictionary.
RECURSIVE FindByDottedPath(_, _)
FindByDottedPath(value, path) ==
    IF path = <<>> THEN value
    ELSE IF value.type = "dict" /\ Head(path) \in DOMAIN value.v
         THEN FindByDottedPath(value.v[Head(path)], Tail(path))
         ELSE None

\* FindString, FindInt, FindDouble and FindBool: the content of `key` if it
\* is of one of `types`.
Find(device, key, types) ==
    IF key \in DOMAIN device.v /\ device.v[key].type \in types
    THEN device.v[key].v
    ELSE None

\* What a device must have, in the order it is asked for.  FindDouble takes
\* an integer too.
kFields ==
    <<[key |-> "userAgent", types |-> {"string"}],
      [key |-> "width", types |-> {"int"}],
      [key |-> "height", types |-> {"int"}],
      [key |-> "deviceScaleFactor", types |-> {"double", "int"}],
      [key |-> "touch", types |-> {"bool"}],
      [key |-> "mobile", types |-> {"bool"}]>>

\* What FindMobileDevice returns for `device_name`, kOk or the error that
\* names what is wrong, and the device it has put together by then.
Lookup(device_name) ==
    LET found == FindByDottedPath(kMobileDevices, device_name)
        valid == found # None /\ found.type = "dict"
        device == IF valid THEN found ELSE [type |-> "dict", v |-> <<>>]
        At(i) == Find(device, kFields[i].key, kFields[i].types)
        malformed == SelectInSeq(kFields, LAMBDA f :
                                     Find(device, f.key, f.types) = None)
    IN  [returned |-> IF ~valid THEN "must be a valid device"
                      ELSE IF malformed # 0 THEN kFields[malformed].key
                      ELSE "kOk",
         tmp_mobile_device |->
             [user_agent |-> At(1),
              device_metrics |->
                  [width |-> At(2), height |-> At(3),
                   device_scale_factor |-> At(4), touch |-> At(5),
                   mobile |-> At(6)],
              client_hints |-> None]]

\* The user agent is written where the caller sees it, before the metrics
\* are looked at.
FindMobileDevice_InPlace(device_name) ==
    LET call == Lookup(device_name)
        tmp == call.tmp_mobile_device
    IN  /\ returned' = call.returned
        /\ mobile_device' =
               IF call.returned = "kOk" THEN tmp
               ELSE IF tmp.user_agent # None
               THEN [mobile_device EXCEPT !.user_agent = tmp.user_agent]
               ELSE mobile_device
        /\ UNCHANGED <<reduced_user_agent, platform>>

\* The first check that fails ends the call with its error; the device is
\* moved to *mobile_device when none has.
FindMobileDevice(device_name) ==
    LET call == Lookup(device_name)
    IN  /\ returned' = call.returned
        /\ mobile_device' = IF call.returned = "kOk"
                            THEN call.tmp_mobile_device ELSE mobile_device
        /\ UNCHANGED <<reduced_user_agent, platform>>

Prefix(start, name) == <<<<"Mozilla/5.0 (">> \o start, name>>

\* Everything on X11 is taken for Linux.
prefix_to_platform_X11 ==
    <<Prefix(<<"Lin">>, "Android"), Prefix(<<"Win">>, "Windows"),
      Prefix(<<"Mac">>, "macOS"), Prefix(<<"X11; ">>, "Linux"),
      Prefix(<<"X11; ", "C">>, "Chrome OS"),
      Prefix(<<"Fuchsia">>, "Fuchsia")>>

prefix_to_platform ==
    <<Prefix(<<"Lin">>, "Android"), Prefix(<<"Win">>, "Windows"),
      Prefix(<<"Mac">>, "macOS"), Prefix(<<"X11; ", "C">>, "Chrome OS"),
      Prefix(<<"X11; ", "L">>, "Linux"), Prefix(<<"Fuchsia">>, "Fuchsia")>>

\* The place of the first prefix `user_agent` starts with, 0 if there is none.
FirstPrefix(user_agent) ==
    SelectInSeq(prefix_to_platform, LAMBDA p : IsPrefix(p[1], user_agent))

GuessPlatform(user_agent) ==
    LET p == FirstPrefix(user_agent)
    IN  /\ returned' = IF p # 0 THEN "true" ELSE "false"
        /\ platform' = IF p # 0 THEN prefix_to_platform[p][2] ELSE platform
        /\ UNCHANGED <<mobile_device, reduced_user_agent>>

GetReducedUserAgentPlatforms ==
    [p \in DOMAIN kPlatformsWithReducedUserAgentSupport |->
        kPlatformsWithReducedUserAgentSupport[p].name]

\* The place of the first platform with the name of the client hints, 0 if
\* there is none.
FirstPlatform(client_hints) ==
    SelectInSeq(kPlatformsWithReducedUserAgentSupport,
                LAMBDA p : p.name = client_hints.platform)

\* The user agent of platform `p`; only a platform with mobile_support has
\* "Mobile " in it.
UserAgent(p, client_hints, major_version) ==
    kFrozenUserAgentTemplate(
        p.unified_name, major_version,
        IF client_hints.mobile /\ p.mobile_support
        THEN <<"Mobile ">> ELSE <<>>)

GetReducedUserAgent(major_version) ==
    LET client_hints == mobile_device.client_hints
        p == FirstPlatform(client_hints)
    IN  /\ \/ /\ client_hints = None
              /\ returned' = "without client hints"
              /\ UNCHANGED reduced_user_agent
           \/ /\ client_hints # None /\ p = 0
              /\ returned' = "for platform"
              /\ UNCHANGED reduced_user_agent
           \/ /\ client_hints # None /\ p # 0
              /\ reduced_user_agent' =
                     UserAgent(kPlatformsWithReducedUserAgentSupport[p],
                               client_hints, major_version)
              /\ returned' = "kOk"
        /\ UNCHANGED <<mobile_device, platform>>

-----------------------------------------------------------------------------

\* The client hints a MobileDevice can have.
ClientHints ==
    [platform : ToSet(GetReducedUserAgentPlatforms) \cup OtherPlatforms,
     mobile : BOOLEAN]

\* A MobileDevice as its constructor leaves it, with the client hints its
\* owner gave it, if any.
Init ==
    /\ \E client_hints \in {None} \cup ClientHints :
           mobile_device = [Empty EXCEPT !.client_hints = client_hints]
    /\ reduced_user_agent = None
    /\ platform = None
    /\ returned = "kOk"

Next ==
    \/ \E device_name \in DeviceNames : FindMobileDevice(device_name)
    \/ \E user_agent \in {mobile_device.user_agent, reduced_user_agent}
                             \ {None} :
           GuessPlatform(user_agent)
    \/ \E major_version \in MajorVersions : GetReducedUserAgent(major_version)

Spec == Init /\ [][Next]_device_vars

-----------------------------------------------------------------------------

\* A value of `type`, or none.
Optional(value, type) == value = None \/ value \in type

Metrics ==
    [width : Nat, height : Nat, device_scale_factor : Nat,
     touch : BOOLEAN, mobile : BOOLEAN]

TypeOK ==
    /\ DOMAIN mobile_device = DOMAIN Empty
    /\ Optional(mobile_device.user_agent, Seq(STRING))
    /\ Optional(mobile_device.device_metrics, Metrics)
    /\ Optional(mobile_device.client_hints, ClientHints)
    /\ Optional(reduced_user_agent, Seq(STRING))
    /\ Optional(platform, STRING)
    /\ returned \in STRING

\* FindMobileDevice gives all of a device or nothing: a call that fails,
\* at whichever of its checks, leaves *mobile_device as the caller had it,
\* client hints included; one that succeeds leaves nothing of what was
\* there, and the device has a user agent and every one of its metrics.
FindMobileDeviceIsAllOrNothing ==
    [][mobile_device' # mobile_device =>
           /\ returned' = "kOk"
           /\ mobile_device'.client_hints = None
           /\ mobile_device'.user_agent = None
                  <=> mobile_device'.device_metrics = None
           /\ mobile_device'.device_metrics # None =>
                  \A m \in DOMAIN mobile_device'.device_metrics :
                      mobile_device'.device_metrics[m] # None
      ]_device_vars

\* GuessPlatform and GetReducedUserAgent agree on the platforms, although
\* two platforms of kPlatformsWithReducedUserAgentSupport share a unified
\* name and the prefixes tell two others apart by one letter: the user agent
\* GetReducedUserAgent made of the client hints starts with a prefix of
\* GuessPlatform, and the platform of that prefix in the place of the one of
\* the client hints gives the same user agent again; and a platform
\* GuessPlatform found, for the user agent of a device of the list too, is
\* one GetReducedUserAgent knows.
GuessedPlatformGivesTheSameUserAgent ==
    /\ reduced_user_agent # None /\ mobile_device.client_hints # None =>
           LET guess == FirstPrefix(reduced_user_agent)
               guessed == [mobile_device.client_hints EXCEPT
                               !.platform = prefix_to_platform[guess][2]]
               p == FirstPlatform(guessed)
           IN  /\ guess # 0 /\ p # 0
               /\ \E major_version \in MajorVersions :
                      UserAgent(kPlatformsWithReducedUserAgentSupport[p],
                                guessed, major_version) = reduced_user_agent
    /\ platform # None =>
           FirstPlatform([platform |-> platform, mobile |-> FALSE]) # 0

=============================================================================
