----------------------------- MODULE MCPrograms -----------------------------
(***************************************************************************)
(* Small instances of what the three programs do, for the questions that   *)
(* need few states: the RT thread of icu under fairness (IcuRt), the life  *)
(* of the icu process, the platform process, and the parts that run in one *)
(* thread, which are the conversions, the configuration reader and the     *)
(* pacing loop.  No two of them have state in common, so a behaviour       *)
(* explores one part ("part") while the others keep one initial value.     *)
(***************************************************************************)
EXTENDS IcuRt, IcuProcess, Platform, Codec, Config, Schedule

VARIABLE part       \* the part explored in this behaviour

\* One command of the platform's send list and one of its get list; the
\* get_command section and the opcode IRST answers under.
MCCommands == {[dir |-> "RECEIVE", sa |-> 1, bcast |-> FALSE],
               [dir |-> "TRANSMIT", sa |-> 11, bcast |-> FALSE]}
MCGetCommands == <<[op |-> 11, sub |-> 11]>>
MCAnswers == {11}

\* Two deliveries of SIGINT, so that one handler can run beside another.
MCSignals == {1, 2}

\* One message to send and two to request, which fill the three frames; one
\* message more than there are frames; and a command word that is refused
\* after a frame has been created.
MCConfigs ==
    {[tx |-> <<"navigation_data">>, rx |-> <<"status_report", "bit_report">>,
      refused |-> {}],
     [tx |-> <<"navigation_data", "mode">>, rx |-> <<"status_report", "bit_report">>,
      refused |-> {}],
     [tx |-> <<"navigation_data">>, rx |-> <<"status_report">>,
      refused |-> {"status_report"}]}

\* Every length a configured text can have.  Files of up to three lines over
\* two sections of each kind, with a value in both ranges, one in neither, one
\* that is no number and the bounds of Rate.  A second of ten ticks and two
\* messages whose rates divide it.
MCLengths == 0..64
MCValues == {-1, 0, 10, 1001}
MCRates == <<5, 2>>

Parts == {"rt", "life", "platform", "codec", "config", "schedule"}
allVars == <<part, vars, lifeVars, platformVars, CodecVars, ConfigVars,
             paceVars>>

ProgramsInit ==
    /\ part \in Parts
    /\ Init /\ LifeInit /\ ConfigInit /\ PaceInit
    /\ PlatformInit /\ (part = "platform" \/ config = CHOOSE c \in Configs : TRUE)
    /\ CodecInit
    /\ part = "codec" \/ (path = "answer" /\ text = <<>> /\ rt = 6 /\ sa = 9)

ProgramsNext ==
    /\ UNCHANGED part
    /\ \/ /\ part = "rt" /\ Next
          /\ UNCHANGED <<lifeVars, platformVars, CodecVars, ConfigVars,
                         paceVars>>
       \/ /\ part = "life" /\ LifeNext
          /\ UNCHANGED <<vars, platformVars, CodecVars, ConfigVars, paceVars>>
       \/ /\ part = "platform" /\ PlatformNext
          /\ UNCHANGED <<vars, lifeVars, CodecVars, ConfigVars, paceVars>>
       \/ /\ part = "codec" /\ CodecNext
          /\ UNCHANGED <<vars, lifeVars, platformVars, ConfigVars, paceVars>>
       \/ /\ part = "config" /\ ConfigNext
          /\ UNCHANGED <<vars, lifeVars, platformVars, CodecVars, paceVars>>
       \/ /\ part = "schedule" /\ PaceNext
          /\ UNCHANGED <<vars, lifeVars, platformVars, CodecVars, ConfigVars>>

\* The fairness of IcuRt, IcuProcess and Platform, each while it is explored.
ProgramsFairness ==
    /\ WF_vars(part = "rt" /\ RtThread)
    /\ WF_vars(part = "rt" /\ (RxLoad1 \/ RxLoad2))
    /\ WF_vars(part = "rt" /\ (FwCell2 \/ FwEntry \/ FwFlag))
    /\ WF_lifeVars(part = "life" /\ MainStep) /\ WF_lifeVars(part = "life" /\ RtStep)
    /\ WF_lifeVars(part = "life" /\ RxStep) /\ WF_lifeVars(part = "life" /\ TxStep)
    /\ \A s \in Signals : WF_lifeVars(part = "life" /\ Handler(s))
    /\ WF_platformVars(part = "platform" /\ PlatformMainStep)
    /\ WF_platformVars(part = "platform" /\ BcStep)
    /\ WF_platformVars(part = "platform" /\ FwStep)
    /\ \A m \in Texts : WF_platformVars(part = "platform" /\ Tick(m))

ProgramsSpec == ProgramsInit /\ [][ProgramsNext]_allVars /\ ProgramsFairness
=============================================================================
