----------------------------- MODULE MCFrontEnd -----------------------------
(* Two tool calls, two chunks of text and a few keys against a short channel. *)
EXTENDS FrontEnd

AllKeys == {"text", "queue", "session", "clear", "compact", "load", "input", "model", "tools",
            "enter", "esc", "ctrl-c"}
=============================================================================
