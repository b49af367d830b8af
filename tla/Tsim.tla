------------------------------- MODULE Tsim --------------------------------
(***************************************************************************)
(* The simulator's front end (src/src/tsim.c): options, recipes, plugins,  *)
(* loading an image, running it with the interpreter or with the compiler, *)
(* and closing.  It uses the registry of Devices.tla.                      *)
(*                                                                         *)
(* What an instruction computes is Machine.tla's matter.  Here an          *)
(* instruction is the access it makes, any load or any store, and whether  *)
(* it writes P; a compiled block is one access.                            *)
(***************************************************************************)
EXTENDS Devices, SequencesExt

CONSTANTS Options,       \* the options there are, on a command line or in a file
          CommandLines,  \* [options, inputs, image]: what tsim is started with
          Libraries,     \* plugins that are found and export an add_device
          JitLibraries,  \* some of "found", "hollow" (no jit_run_sim in it), "missing"
          Accesses,      \* addresses of the loads and the stores
          Values,        \* words stored, among Word
          Targets,       \* addresses jumped to
          MaxEvents,     \* bound on the queue of SDL
          MaxImpls,      \* plugin_load's room for names
          Characters     \* characters on stdin

Recipes  == {"prealloc", "sparse", "serial", "plugin", "jit"}
End      == Limit - 1               \* 0xffffffff in P

ASSUME OptionsAssumption ==
  /\ \A o \in Options :
       /\ o.opt = "@" => o.lines \in Seq(Options)
       /\ o.opt \in {"a", "s"} => o.addr \in Address
       /\ o.opt = "p" => o.inst \in Nat /\ o.name \notin Recipes
  /\ \A cl \in CommandLines :
       /\ cl.options \in Seq(Options)
       /\ cl.image \in Seq([reladdr : Nat, word : Word])

\* The plugins are displays: the SPI master, also one, is the matter of Spi.tla.
ASSUME MachineAssumption ==
  /\ Libraries \subseteq Sdl
  /\ Accesses \cup Targets \cup {RAM_BASE} \subseteq Address /\ Values \subseteq Word
  /\ {MaxEvents, MaxImpls, Characters} \subseteq Nat

VARIABLES stage,    \* where main is, or how it ended
          args,     \* the options still to be read
          inputs,   \* the input files of the command line
          conf,     \* s->conf and s->recipes
          todo,     \* recipes and plugins still to be run
          loaded,   \* s->plugins_loaded
          runner,   \* s->run_sim
          libs,     \* the libraries of s->libs
          image,    \* the elements still to be loaded
          P,        \* s->machine.regs[15]
          at,       \* where the runner is
          last      \* history: address |-> the word last written there

mainVars == <<stage, args, inputs, conf, todo, loaded, runner, libs, image, P, at, last>>
vars == <<mainVars, deviceVars>>

Final == {"done", "failed", "exit", "crashed"}

Init ==
  /\ stage = "args"
  /\ \E cl \in CommandLines : args = cl.options /\ inputs = cl.inputs /\ image = cl.image
  /\ conf = [run_defaults |-> TRUE, recipes |-> <<>>, plugins |-> <<>>,
             load_addr |-> RAM_BASE, start_addr |-> RAM_BASE]
  /\ todo = <<>> /\ loaded = FALSE /\ runner = "interp" /\ libs = 0
  /\ P = 0 /\ at = "fetch" /\ last = <<>>
  /\ devices_setup
  /\ input = Characters /\ events = <<>>

-----------------------------------------------------------------------------
(* Options. *)

\* param_add of plugin[inst], replacing or appending.
SetPlugin(plugins, o) ==
  LET old == IF o.inst \in DOMAIN plugins THEN plugins[o.inst] ELSE <<>>
  IN  [i \in DOMAIN plugins \cup {o.inst} |->
         IF i # o.inst THEN plugins[i] ELSE IF o.plus THEN Append(old, o.name) ELSE <<o.name>>]

Refused(o) ==
  \/ o.opt = "r" /\ o.name \notin Recipes
  \/ o.opt \in {"unknown format", "help", "unknown"}

NewConf(o) ==
  CASE o.opt = "n" -> [conf EXCEPT !.run_defaults = FALSE]
    [] o.opt = "r" -> [conf EXCEPT !.recipes = <<o.name>> \o @]
    [] o.opt = "p" -> [conf EXCEPT !.plugins = SetPlugin(@, o)]
    [] o.opt = "a" -> [conf EXCEPT !.load_addr = o.addr]
    [] o.opt = "s" -> [conf EXCEPT !.start_addr = o.addr]
    [] OTHER -> conf

\* parse_args; parse_opts_file reads each line as an option of its own.
parse_args ==
  /\ stage = "args" /\ args # <<>>
  /\ LET o == Head(args)
     IN  /\ conf' = IF Refused(o) THEN conf ELSE NewConf(o)
         /\ stage' = CASE Refused(o) -> "exit"
                       [] o.opt = "missing options file" -> "failed"
                       [] OTHER -> stage
         /\ args' = (IF o.opt = "@" THEN o.lines ELSE <<>>) \o Tail(args)
  /\ UNCHANGED <<inputs, todo, loaded, runner, libs, image, P, at, last, deviceVars>>

\* One input file, that can be opened; then the recipes, the defaults first.
OpenInput ==
  /\ stage = "args" /\ args = <<>>
  /\ IF Len(inputs) = 1 /\ inputs[1] = "readable"
     THEN /\ stage' = "recipes"
          /\ todo' = (IF conf.run_defaults THEN <<"sparse", "serial", "plugin">> ELSE <<>>)
                       \o conf.recipes
     ELSE stage' = "failed" /\ UNCHANGED todo
  /\ UNCHANGED <<args, inputs, conf, loaded, runner, libs, image, P, at, last, deviceVars>>

-----------------------------------------------------------------------------
(* Recipes. *)

Running(r) == stage = "recipes" /\ todo # <<>> /\ Head(todo) = r

recipe_device ==
  \E r \in {"prealloc", "sparse", "serial"} :
    /\ Running(r)
    /\ add_device(r)
    /\ todo' = Tail(todo)
    /\ UNCHANGED <<stage, args, inputs, conf, loaded, runner, libs, image, P, at, last>>

\* plugin[0], plugin[1], ... as far as there are any.
Instances == {i \in DOMAIN conf.plugins : \A j \in 0 .. i : j \in DOMAIN conf.plugins}
Impls     == FlattenSeq([i \in 1 .. Cardinality(Instances) |-> conf.plugins[i - 1]])

\* plugin_load reads past its array when one list is longer than that.
TooMany == \E i \in Instances : Len(conf.plugins[i]) > MaxImpls

\* Mutant of AlreadyLoaded: the default recipe is forgotten.
NeverLoaded == FALSE

AlreadyLoaded == loaded

recipe_plugin ==
  /\ Running("plugin")
  /\ loaded' = TRUE
  /\ IF ~AlreadyLoaded /\ TooMany THEN stage' = "crashed" /\ UNCHANGED todo
     ELSE /\ todo' = (IF AlreadyLoaded THEN <<>> ELSE Impls) \o Tail(todo)
          /\ UNCHANGED stage
  /\ UNCHANGED <<args, inputs, conf, runner, libs, image, P, at, last, deviceVars>>

\* A plugin that is not found, or exports nothing, is passed over.
plugin_success ==
  /\ stage = "recipes" /\ todo # <<>> /\ Head(todo) \notin Recipes
  /\ IF Head(todo) \in Libraries THEN add_device(Head(todo)) ELSE UNCHANGED deviceVars
  /\ todo' = Tail(todo)
  /\ UNCHANGED <<stage, args, inputs, conf, loaded, runner, libs, image, P, at, last>>

\* The search for a library that is missing runs off the end of the paths.
recipe_jit ==
  /\ Running("jit")
  /\ \E lib \in JitLibraries :
       IF lib = "found"
       THEN /\ runner' = "jit" /\ libs' = libs + 1 /\ todo' = Tail(todo)
            /\ at' = "block"
            /\ UNCHANGED stage
       ELSE /\ stage' = IF lib = "hollow" THEN "failed" ELSE "crashed"
            /\ UNCHANGED <<runner, libs, todo, at>>
  /\ UNCHANGED <<args, inputs, conf, loaded, image, P, last, deviceVars>>

-----------------------------------------------------------------------------
(* Accesses, by the loader and by the program. *)

\* An access takes effect, or fails and leaves the devices alone.
NoAccess == UNCHANGED <<store, input, last>>

Load(addr) ==
  /\ UNCHANGED last
  /\ IF ReadFails(addr) THEN UNCHANGED <<store, input>>
     ELSE store' = AfterRead(addr) /\ input' = InputAfterRead(addr)

Store(addr, w) ==
  /\ UNCHANGED input
  /\ IF WriteFails(addr) THEN UNCHANGED <<store, last>>
     ELSE /\ store' = AfterWrite(addr, w)
          /\ last' = IF Keeps(addr) THEN Extend([a \in {addr} |-> w], last) ELSE last

-----------------------------------------------------------------------------
(* Loading. *)

\* The device's init or the format's may be fatal.
Finalise ==
  /\ stage = "recipes" /\ todo = <<>>
  /\ devices_finalise
  /\ stage' \in {"load", "failed"}
  /\ UNCHANGED <<args, inputs, conf, todo, loaded, runner, libs, image, P, at, last>>

LoadAddress == (conf.load_addr + Head(image).reladdr) % Limit

load_sim ==
  /\ stage = "load" /\ image # <<>>
  /\ Store(LoadAddress, Head(image).word)
  /\ IF WriteFails(LoadAddress) THEN stage' = "failed" /\ UNCHANGED image
     ELSE image' = Tail(image) /\ UNCHANGED stage
  /\ UNCHANGED <<args, inputs, conf, todo, loaded, runner, libs, P, at,
                 devices, devices_max, live, events, cycles>>

Start ==
  /\ stage = "load" /\ image = <<>>
  /\ P' = conf.start_addr /\ stage' = "run"
  /\ UNCHANGED <<args, inputs, conf, todo, loaded, runner, libs, image, at, last, deviceVars>>

-----------------------------------------------------------------------------
(* Running.  "block", "pump" and "last" are places of jit_run_sim's loop.  *)

At(where) == stage = "run" /\ at = where

frozen == <<args, inputs, conf, todo, loaded, runner, libs, image, devices, devices_max, live>>

\* Mutant of Return: the compiler's loop never looks at rc.
ReturnOn(rc) ==
  IF runner = "interp" THEN stage' = "close" /\ UNCHANGED at
  ELSE at' = "pump" /\ UNCHANGED stage

\* interp_run_sim returns: rc < 0 ends jit_run_sim too, once it has pumped.
Return(rc) ==
  IF runner = "interp" THEN stage' = "close" /\ UNCHANGED at
  ELSE at' = (IF rc < 0 THEN "last" ELSE "pump") /\ UNCHANGED stage

\* jit_run_sim finds no block, or runs one and hears nothing of its failures.
Block ==
  /\ At("block") /\ at' = "fetch"
  /\ \/ UNCHANGED P /\ NoAccess
     \/ /\ P' \in Targets
        /\ \/ NoAccess
           \/ \E a \in Accesses : Load(a) \/ \E w \in Values : Store(a, w)
  /\ UNCHANGED <<frozen, stage, events, cycles>>

\* The fetch, and pre_insn_hook, which hands a compiled block back.
Fetch ==
  /\ At("fetch")
  /\ IF P = End \/ ReadFails(P) THEN Return(-1) /\ NoAccess
     ELSE /\ Load(P)
          /\ UNCHANGED stage
          /\ at' \in IF runner = "jit" THEN {"exec", "pump"} ELSE {"exec"}
  /\ UNCHANGED <<frozen, P, events, cycles>>

\* An instruction whose access fails: P stays advanced.
Fails ==
  /\ At("exec")
  /\ \E a \in Accesses : ReadFails(a) \/ WriteFails(a)
  /\ P' = (P + 1) % Limit
  /\ Return(1)
  /\ NoAccess
  /\ UNCHANGED <<frozen, events, cycles>>

\* An instruction and post_insn; the wrapper of jit.cc returns when P is written.
Insn ==
  /\ At("exec")
  /\ \/ NoAccess
     \/ \E a \in Accesses : \/ ~ReadFails(a) /\ Load(a)
                            \/ ~WriteFails(a) /\ \E w \in Values : Store(a, w)
  /\ \/ P' = (P + 1) % Limit /\ at' = "fetch"
     \/ P' \in Targets /\ at' = IF runner = "jit" THEN "pump" ELSE "fetch"
  /\ devices_dispatch_cycle
  /\ stage' = IF Quits THEN "exit" ELSE stage
  /\ UNCHANGED frozen

Pump ==
  /\ At("pump") \/ At("last")
  /\ devices_dispatch_cycle
  /\ stage' = IF Quits THEN "exit" ELSE IF at = "last" THEN "close" ELSE stage
  /\ at' = "block"
  /\ NoAccess
  /\ UNCHANGED <<frozen, P>>

\* teardown, param_destroy and the libraries
Close ==
  /\ stage = "close" /\ stage' = "done"
  /\ devices_teardown /\ libs' = 0
  /\ UNCHANGED <<args, inputs, conf, todo, loaded, runner, image, P, at, last,
                 devices, devices_max, input, events, cycles>>

\* The user of an SDL window.
Event ==
  /\ stage = "run" /\ cycles # <<>> /\ Len(events) < MaxEvents
  /\ \E e \in {"quit", "other"} : events' = Append(events, e)
  /\ UNCHANGED <<mainVars, devices, devices_max, live, store, input, cycles>>

Stopped == stage \in Final /\ UNCHANGED vars

Run  == Block \/ Fetch \/ Fails \/ Insn \/ Pump
Next ==
  \/ parse_args \/ OpenInput
  \/ recipe_device \/ recipe_plugin \/ plugin_success \/ recipe_jit
  \/ Finalise \/ load_sim \/ Start
  \/ Run \/ Close \/ Event \/ Stopped

\* The program runs as long as it can; nobody need move the mouse.
Spec == Init /\ [][Next]_vars /\ WF_vars(Run)

-----------------------------------------------------------------------------
(* Properties. *)

TypeOK ==
  /\ stage \in {"args", "recipes", "load", "run", "close"} \cup Final
  /\ conf.run_defaults \in BOOLEAN /\ Range(conf.recipes) \subseteq Recipes
  /\ conf.load_addr \in Address /\ conf.start_addr \in Address
  /\ loaded \in BOOLEAN /\ runner \in {"interp", "jit"} /\ libs \in Nat
  /\ P \in Address /\ at \in {"block", "fetch", "exec", "pump", "last"}
  /\ devices_max \in Nat
  /\ \A i \in DOMAIN devices : devices[i] \in [kind : Kinds, cookie : 1 .. Len(devices)]
  /\ live \subseteq 1 .. Len(devices)
  /\ \A c \in DOMAIN store : c \in live \X Address /\ store[c] \in Word
  /\ \A a \in DOMAIN last : a \in Address /\ last[a] \in Word
  /\ input \in Nat /\ Len(events) <= MaxEvents

Operating == stage \in {"load", "run"}

\* The binary search of dispatch_op finds a device exactly where one covers
\* the address, whatever the recipes and their order, and that device has
\* been initialised: sorting must leave no device behind a wrong neighbour,
\* and the array must have had room for each.
Reachable ==
  /\ Len(devices) <= devices_max
  /\ Operating =>
       \A a \in Address :
         IF \E i \in DOMAIN devices : a \in Span(devices[i].kind)
         THEN /\ Find(a) # 0
              /\ a \in Span(Owner(a).kind) /\ Owner(a).cookie \in live
         ELSE Find(a) = 0

\* Whatever was loaded or stored last at an address is what a read there
\* gives (for a register of the LEDs, the part that is shown), also when two
\* memories cover it and when pages appear between the write and the read.
Coherent ==
  Operating => \A a \in DOMAIN last :
    Value(a) = IF Owner(a).kind = "sdlled" THEN last[a] % LedValues ELSE last[a]

\* Each plugin that was asked for and can be loaded is registered once,
\* however often the plugin recipe runs, by default and by option, and
\* whatever plugins before it could not be loaded.
PluginsOnce ==
  Operating => \A k \in Sdl :
    Cardinality({i \in DOMAIN devices : devices[i].kind = k})
      = IF loaded THEN Cardinality({i \in DOMAIN Impls : Impls[i] = k /\ k \in Libraries}) ELSE 0

\* A user who asks an SDL device to quit ends the simulation, under the
\* interpreter and under the compiler: each poll takes one event, and the
\* devices share the queue.
QuitHeard == "quit" \in Range(events) /\ stage = "run" ~> stage # "run"

\* A program that comes to the end address, or to one where nothing can be
\* read, ends the simulation under both runners: the compiler's loop, which
\* calls the interpreter again after each block and each failed access, must
\* tell this from them.
EndHeard == At("fetch") /\ (P = End \/ ReadFails(P)) ~> stage # "run"

=============================================================================
