--------------------------- MODULE MCBuildDriver ---------------------------
(* TLC instances of the build driver: a build with two targets.              *)
EXTENDS BuildDriver

Plain(arch) ==
    [arch |-> arch, defines |-> {}, directories |-> {}, flags |-> {}, link |-> FALSE]

\* The host's architecture with a define and a directory of its own, then wasm32.
HostThenWasm ==
    <<[arch |-> "x86_64", defines |-> {"GAME"}, directories |-> {"game"},
       flags |-> {"Standalone"}, link |-> TRUE],
      Plain("wasm32")>>

=============================================================================
