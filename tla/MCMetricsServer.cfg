CONSTANTS
    Backlog = 2
    MaxOut = 2
    MaxKills = 1
    MaxStops = 2
    MaxProbes = 1
    Asker = {plugin}
    Mute = {mute}
SPECIFICATION UnitSpec
INVARIANTS UnitTypeOK NothingDiscarded ServedWhenTrading
PROPERTIES SelfHeals StopCompletes ScrapesAnswered
