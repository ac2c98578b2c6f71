------------------------------ MODULE MCSettings ------------------------------
(***************************************************************************)
(* Files for Settings: the shipped one, and files that put one or two      *)
(* entries, plain, quoted, empty, repeated or commented out, under a       *)
(* redirection section, with redirection on, off, or switched in the wrong *)
(* section.                                                                *)
(***************************************************************************)
EXTENDS Settings

Unlisted == {<<"www.example">>}

\* "0x5" is read to base 16, and of "5abc" only the beginning.
Numbers == ("-1" :> -1) @@ ("0" :> 0) @@ ("1" :> 1) @@ ("2" :> 2) @@ ("3" :> 3) @@ ("7" :> 7)
             @@ ("8" :> 8) @@ ("0x5" :> 5) @@ ("5abc" :> 5)
FalseCases == {"false", "False", "FALSE"}

On == <<SectionLine("patches"), Entry("redirect", <<Space, "true">>)>>

Shipped ==
  <<<<"#", Space, "AzureFlare">>, <<>>>> \o On
     \o <<Entry("gameguard", Plain("true")), Entry("episode4_mode", Plain("true")),
          Entry("client_language", <<Space, "1", Space, "#", Space, "English">>),
          Entry("enable_direct_input", Plain("true"))>>
     \o FlattenSeq([i \in 1 .. Len(NewUrls) |->
          <<SectionLine(NewUrls[i][1]), Entry(NewUrls[i][2], Quoted("own.example"))>>])

PatchEntries ==
  {Entry("patch_server", v) : v \in
     {Quoted("a.example"), <<>>, Quoted(""), <<"\"">>, Official[<<"redirect.us", "game_server">>],
      <<Space, "a.example", Space, "//", Space, "b.example">>,
      <<Tab, "a.example", Tab, "//", Space, "b.example", Tab>>,
      <<"//", "a.example", Semicolon, "#">>}}
\* An option or a section that a comment takes away, in part or altogether.
Commented ==
  {<<SectionLine("patches"), <<Semicolon, "redirect", "=", "true">>>>,
   <<SectionLine("patches"), <<Tab, "redirect", Tab, "=", Tab, "0", Tab, "//", "true">>>>,
   <<SectionLine("patches"), <<"redirect", Space, "//", "=", "true">>>>,
   <<<<"BOM">> \o SectionLine("patches"), <<Space, "redirect", Space, "=", "0", "#", "true">>>>,
   <<SectionLine("patches"), <<"redirect", "=", "0", Space, "//", "true", Space, "//", "on">>>>,
   <<SectionLine("patches"), <<"redirect", "=", "true", Space, "//", Semicolon, "no">>,
     <<"gameguard">>, <<Tab, Space, "[", "patches", "]", "x">>, <<"episode4_mode", "=", "true">>>>,
   <<<<"#">> \o SectionLine("redirect.us"), <<"redirect", "=", "true">>>>}

SomeFiles ==
  {<<>>, Shipped,
   <<Entry("redirect", Plain("true"))>>,
   <<SectionLine("redirect.us"), Entry("redirect", Plain("true"))>>,
   <<SectionLine("patches"), Entry("redirect", Quoted("false"))>>,
   <<SectionLine("patches"), Entry("redirect", Plain("0")), Entry("redirect", Plain("true"))>>,
   <<SectionLine("patches"), Entry("client_language", Plain("8")), Entry("gameguard", Plain(""))>>,
   <<SectionLine("patches"), Entry("client_language", Plain("7")),
     Entry("client_language", Plain("2")), Entry("episode4_mode", Plain("FALSE"))>>,
   <<SectionLine("patches"), Entry("client_language", Plain("none")),
     Entry("client_language", Plain("3")), Entry("gameguard", Plain("true")),
     SectionLine("redirect.us"), SectionLine("patches"), Entry("gameguard", Plain("FALSE"))>>,
   <<SectionLine("patches"), Entry("client_language", Plain("0x5"))>>,
   <<SectionLine("patches"), Entry("client_language", Plain("5abc"))>>,
   <<SectionLine("redirect.us"), Entry("patch_server", Plain("a.example"))>> \o On}
  \union Commented
  \union {On \o <<SectionLine("redirect.us"), d>> : d \in PatchEntries}
  \union {On \o <<SectionLine("redirect.us"), Entry("patch_server", v), e>> :
             v \in {Quoted("a.example"), Official[<<"redirect.us", "game_server">>]},
             e \in {Entry("patch_server", Plain("c.example")),
                    Entry("game_server", Plain("b.example")),
                    <<"#">> \o Entry("game_server", Plain("b.example"))}}
===============================================================================
