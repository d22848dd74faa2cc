SPECIFICATION DeploySpec
CONSTANTS
    Axelar = TRUE
    Markets = 4
    MaxCrashes = 0
PROPERTY WorksOrStaysBlank
